---- MODULE Spec2Model ----
(***************************************************************************)
(* Pool Pump Sizing Tool (src/app.js, the "FULL WORKING + Qty FIX" build,  *)
(* lines 866-1855): flow-requirement aggregation, pump-curve matching and  *)
(* the PASS/CLOSE badges, as a state machine over the tool's state object  *)
(* and its curve store.                                                    *)
(*                                                                         *)
(* Numbers.  JavaScript numbers are modelled as exact rationals <<n, d>>   *)
(* with d > 0; <<0, 0>> stands for NaN.  Stored numeric fields of the      *)
(* configuration hold integers, except the target heads (a pump's tdh and   *)
(* spa.spaTDH), the pipe diameter and the estimator's results, which hold  *)
(* rationals; text fields hold sequences of characters.                    *)
(*                                                                         *)
(* The calculations read the globals state and curves.  They are written   *)
(* here as operators of (st, cv), the values of the two globals, so that a *)
(* handler can evaluate them on the state it has just written.             *)
(***************************************************************************)
EXTENDS Integers, Sequences, FiniteSets, TLC

\* state and curves are the script's two globals; the others are what the
\* page shows: one entry per pump row, the two summary badges, and whether
\* the first renderAll has run.  selApplyTDH is the value of the apply-scope
\* select and alerts the alert() calls made so far, oldest first.  lookup
\* holds one call of gpmAtTDH: its arguments and, once made, its result, and
\* parsing one call of parsePoints.  saved is what local storage holds, and
\* raised tells that an evaluation has raised an exception: in the start-up
\* (uncaught), or under the import handler (caught there).
VARIABLES state, curves, pumpRows, badgePoolMode, badgeSpaMode, rendered,
          selApplyTDH, alerts, lookup, parsing, saved, raised

vars == <<state, curves, pumpRows, badgePoolMode, badgeSpaMode, rendered,
          selApplyTDH, alerts, lookup, parsing, saved, raised>>

(***************************************************************************)
(* Bounds of the model.                                                    *)
(***************************************************************************)
MaxPumps == 2
MaxWF == 1
MaxLines == 2
MaxQty == 2
MaxK == 2
MaxAlerts == 2
MaxPoints == 3
MaxTextLines == 3

(***************************************************************************)
(* Exact rational arithmetic.                                              *)
(***************************************************************************)
RECURSIVE Gcd(_, _)
Gcd(a, b) == IF b = 0 THEN a ELSE Gcd(b, a % b)

Abs(x) == IF x < 0 THEN -x ELSE x

NaN == <<0, 0>>

\* <<1, 0>> is +Infinity and <<-1, 0>> is -Infinity.
Norm(x) ==
  IF x[2] = 0
  THEN <<IF x[1] > 0 THEN 1 ELSE IF x[1] < 0 THEN -1 ELSE 0, 0>>
  ELSE LET s == IF x[2] < 0 THEN -1 ELSE 1
           g == Gcd(Abs(x[1]), Abs(x[2]))
       IN  <<(s * x[1]) \div g, (s * x[2]) \div g>>

R(i) == <<i, 1>>

isNaN(x) == x[1] = 0 /\ x[2] = 0

isFinite(x) == x[2] # 0

\* The results of the arithmetic are left unreduced, with a denominator >= 0;
\* Norm reduces a value where it is stored or shown.
Sgn(n) == IF n > 0 THEN 1 ELSE IF n < 0 THEN -1 ELSE 0

RAdd(x, y) == <<x[1] * y[2] + y[1] * x[2], x[2] * y[2]>>
RSub(x, y) == <<x[1] * y[2] - y[1] * x[2], x[2] * y[2]>>
RMul(x, y) == <<x[1] * y[1], x[2] * y[2]>>
RDiv(x, y) ==
  IF y[1] < 0 THEN <<-(x[1] * y[2]), -(x[2] * y[1])>>
  ELSE <<x[1] * y[2], x[2] * y[1]>>
RNeg(x) == <<-x[1], x[2]>>

\* Comparisons: every comparison with NaN is false.
RLt(x, y) ==
  /\ ~isNaN(x)
  /\ ~isNaN(y)
  /\ IF x[2] = 0 /\ y[2] = 0 THEN Sgn(x[1]) < Sgn(y[1])
     ELSE x[1] * y[2] < y[1] * x[2]
RLe(x, y) ==
  /\ ~isNaN(x)
  /\ ~isNaN(y)
  /\ IF x[2] = 0 /\ y[2] = 0 THEN Sgn(x[1]) <= Sgn(y[1])
     ELSE x[1] * y[2] <= y[1] * x[2]
RGt(x, y) == RLt(y, x)
RGe(x, y) == RLe(y, x)
REq(x, y) == RLe(x, y) /\ RLe(y, x)
\* !x on a number: true for 0 and for NaN.
Falsy(x) == x[1] = 0
\* Math.max and Math.min of two numbers.
RMax(x, y) == IF isNaN(x) \/ isNaN(y) THEN NaN ELSE IF RLt(x, y) THEN y ELSE x
RMin(x, y) == IF isNaN(x) \/ isNaN(y) THEN NaN ELSE IF RLt(y, x) THEN y ELSE x
RAbs(x) == <<Abs(x[1]), x[2]>>

(***************************************************************************)
(* Helpers (src/app.js 885-890).                                           *)
(***************************************************************************)
Digits == <<"0", "1", "2", "3", "4", "5", "6", "7", "8", "9">>

IsDigit(c) == \E i \in 1..10 : Digits[i] = c

DigitVal(c) == (CHOOSE i \in 1..10 : Digits[i] = c) - 1

IsSpace(c) == c \in {" ", "\t"}

RECURSIVE SkipSpaces(_)
SkipSpaces(s) == IF s # <<>> /\ IsSpace(Head(s)) THEN SkipSpaces(Tail(s)) ELSE s

\* The value of the longest prefix of decimal digits of s, and its length.
RECURSIVE DigitPrefix(_, _, _)
DigitPrefix(s, acc, n) ==
  IF s # <<>> /\ IsDigit(Head(s))
  THEN DigitPrefix(Tail(s), 10 * acc + DigitVal(Head(s)), n + 1)
  ELSE <<acc, n>>

\* parseFloat on a text without fraction or exponent characters: leading
\* white space and an optional sign are skipped, the longest run of digits is
\* read and whatever follows it is ignored; no digit gives NaN.
SignedValue(neg, p) ==
  IF p[2] = 0 THEN NaN ELSE R(IF neg THEN -p[1] ELSE p[1])

ParseTrimmed(t) ==
  IF t # <<>> /\ Head(t) \in {"-", "+"}
  THEN SignedValue(Head(t) = "-", DigitPrefix(Tail(t), 0, 0))
  ELSE SignedValue(FALSE, DigitPrefix(t, 0, 0))

parseFloat(s) == ParseTrimmed(SkipSpaces(s))

OrDefault(x, d) == IF isFinite(x) THEN x ELSE d

\* num(v, d) on a text value.
numText(s, d) == OrDefault(parseFloat(s), d)

\* num(v, d) on a stored finite number: String(v) parses back to v.
num(v, d) == R(v)

clamp(v, a, b) == RMax(a, RMin(b, v))

\* Math.floor of a rational.
Floor(x) == x[1] \div x[2]

\* Math.round: the nearest integer, a half rounding up.
Round(x) == Floor(RAdd(x, <<1, 2>>))

\* round1: one decimal place (Number.EPSILON is below the model's resolution).
round1(x) == Norm(<<Round(RMul(x, R(10))), 10>>)

(***************************************************************************)
(* Curve interpolation (src/app.js 916-944).  A point is [gpm, tdh].       *)
(***************************************************************************)
RECURSIVE MaxOver(_, _)
MaxOver(xs, i) ==
  IF i = Len(xs) THEN xs[i] ELSE RMax(xs[i], MaxOver(xs, i + 1))

RECURSIVE MinOver(_, _)
MinOver(xs, i) ==
  IF i = Len(xs) THEN xs[i] ELSE RMin(xs[i], MinOver(xs, i + 1))

Heads(points) == [i \in 1..Len(points) |-> R(points[i].tdh)]

\* Math.abs(x) < 1e-9, without multiplying by 10^9.
Below1e9(x) == Abs(x[1]) <= (x[2] - 1) \div 1000000000

\* The head range of the segment from a to b brackets the target.
Crosses(targetTDH, t1, t2) ==
  \/ RLe(targetTDH, t1) /\ RGe(targetTDH, t2)
  \/ RGe(targetTDH, t1) /\ RLe(targetTDH, t2)

\* Interpolate measuring the step from the far end of the segment.
Interpolate_Overshoot(targetTDH, g1, t1, g2, t2, denom) ==
  IF Below1e9(denom) THEN g1
  ELSE RAdd(g2, RMul(RDiv(RSub(targetTDH, t1), denom), RSub(g2, g1)))

\* Interpolate running from the second point of the segment to the first.
Interpolate_Reversed(targetTDH, g1, t1, g2, t2, denom) ==
  IF Below1e9(denom) THEN g1
  ELSE clamp(RAdd(g2, RMul(RDiv(RSub(targetTDH, t1), denom), RSub(g1, g2))),
             RMin(g1, g2), RMax(g1, g2))

\* src/app.js 937-941 on the segment from (g1, t1) to (g2, t2).
Interpolate(targetTDH, g1, t1, g2, t2, denom) ==
  IF Below1e9(denom) THEN g1
  ELSE clamp(RAdd(g1, RMul(RDiv(RSub(targetTDH, t1), denom), RSub(g2, g1))),
             RMin(g1, g2), RMax(g1, g2))

\* The loop of gpmAtTDH run from the last segment back to the first.
RECURSIVE ScanBack(_, _, _)
ScanBack(points, targetTDH, j) ==
  IF j < 1 THEN R(0)
  ELSE IF ~Crosses(targetTDH, R(points[j].tdh), R(points[j + 1].tdh))
       THEN ScanBack(points, targetTDH, j - 1)
       ELSE Interpolate(targetTDH, R(points[j].gpm), R(points[j].tdh),
                        R(points[j + 1].gpm), R(points[j + 1].tdh),
                        RSub(R(points[j + 1].tdh), R(points[j].tdh)))

ScanSegments_FromEnd(points, targetTDH, i) == ScanBack(points, targetTDH, Len(points) - 1)

\* The loop of gpmAtTDH from segment i on.
RECURSIVE ScanSegments(_, _, _)
ScanSegments(points, targetTDH, i) ==
  IF i > Len(points) - 1 THEN R(0)
  ELSE IF ~Crosses(targetTDH, R(points[i].tdh), R(points[i + 1].tdh))
       THEN ScanSegments(points, targetTDH, i + 1)
       ELSE Interpolate(targetTDH, R(points[i].gpm), R(points[i].tdh),
                        R(points[i + 1].gpm), R(points[i + 1].tdh),
                        RSub(R(points[i + 1].tdh), R(points[i].tdh)))

\* gpmAtTDH answering a head above the maximum like one below the minimum.
gpmAtTDH_AboveAsBelow(points, targetTDH) ==
  IF Len(points) < 2 THEN R(0)
  ELSE IF RGt(targetTDH, MaxOver(Heads(points), 1)) THEN R(points[Len(points)].gpm)
  ELSE IF RLt(targetTDH, MinOver(Heads(points), 1)) THEN R(points[Len(points)].gpm)
  ELSE ScanSegments(points, targetTDH, 1)

\* gpmAtTDH answering a head below the minimum with the first point's flow.
gpmAtTDH_BelowGivesFirst(points, targetTDH) ==
  IF Len(points) < 2 THEN R(0)
  ELSE IF RGt(targetTDH, MaxOver(Heads(points), 1)) THEN R(0)
  ELSE IF RLt(targetTDH, MinOver(Heads(points), 1)) THEN R(points[1].gpm)
  ELSE ScanSegments(points, targetTDH, 1)

\* gpmAtTDH with the results of its two out-of-range branches exchanged.
gpmAtTDH_RangeSwapped(points, targetTDH) ==
  IF Len(points) < 2 THEN R(0)
  ELSE IF RGt(targetTDH, MaxOver(Heads(points), 1)) THEN R(points[Len(points)].gpm)
  ELSE IF RLt(targetTDH, MinOver(Heads(points), 1)) THEN R(0)
  ELSE ScanSegments(points, targetTDH, 1)

gpmAtTDH(points, targetTDH) ==
  IF Len(points) < 2 THEN R(0)
  ELSE LET maxTDH == MaxOver(Heads(points), 1)
           minTDH == MinOver(Heads(points), 1)
       IN  IF RGt(targetTDH, maxTDH) THEN R(0)
           ELSE IF RLt(targetTDH, minTDH) THEN R(points[Len(points)].gpm)
           ELSE ScanSegments(points, targetTDH, 1)

(***************************************************************************)
(* Flow requirements (src/app.js 1111-1155).                               *)
(***************************************************************************)
HoursFrom(custom, h) ==
  IF isFinite(custom) /\ RGt(custom, R(0)) THEN custom
  ELSE IF Falsy(h) THEN R(6) ELSE h

getTurnoverHours(st) ==
  HoursFrom(numText(st.project.turnoverCustom, NaN), num(st.project.turnoverH, 6))

\* (vol / hours) / 60, and 0 when either is 0 (src/app.js 1120-1121, 1142-1143).
TurnoverFlow(vol, hours) ==
  IF Falsy(vol) \/ Falsy(hours) THEN R(0)
  ELSE RDiv(RDiv(vol, hours), R(60))

calcPoolTurnoverFlowGPM(st) ==
  TurnoverFlow(num(st.project.poolVol, 0), getTurnoverHours(st))

RECURSIVE SumRows(_, _)
SumRows(rows, i) ==
  IF i > Len(rows) THEN R(0)
  ELSE RAdd(RMul(RMul(num(rows[i].qty, 0), num(rows[i].width, 0)),
                 num(rows[i].gpmPerFt, 0)),
            SumRows(rows, i + 1))

calcWaterFeaturesFlowGPM(st) == SumRows(st.waterFeatures, 1)

calcPoolRequiredFlowGPM(st) ==
  RAdd(calcPoolTurnoverFlowGPM(st), calcWaterFeaturesFlowGPM(st))

calcSpaJetsFlowGPM(st) == RMul(num(st.spa.jetsQty, 0), num(st.spa.gpmPerJet, 0))

calcSpaTurnoverFlowGPM(st) ==
  TurnoverFlow(num(st.spa.spaVol, 0), num(st.spa.spaTurnH, 0))

calcSpaRequiredFlowGPM(st) ==
  RMax(calcSpaJetsFlowGPM(st), calcSpaTurnoverFlowGPM(st))

systemRequiredFlow(st, system) ==
  IF system = "Pool" THEN calcPoolTurnoverFlowGPM(st)
  ELSE IF system = "Water" THEN calcWaterFeaturesFlowGPM(st)
  ELSE IF system = "Spa" THEN calcSpaRequiredFlowGPM(st)
  ELSE calcPoolRequiredFlowGPM(st)

(***************************************************************************)
(* The forward lookup (head at flow), which the script does not have: the  *)
(* flow is clamped into the flow range of the points and the head is       *)
(* interpolated linearly on the first pair of consecutive points whose     *)
(* flows bracket it.                                                       *)
(***************************************************************************)
Flows(points) == [i \in 1..Len(points) |-> R(points[i].gpm)]

HeadOnSegment(flow, g1, t1, g2, t2) ==
  IF REq(g1, g2) THEN t1
  ELSE RAdd(t1, RMul(RDiv(RSub(flow, g1), RSub(g2, g1)), RSub(t2, t1)))

RECURSIVE ScanFlows(_, _, _)
ScanFlows(points, flow, i) ==
  IF i > Len(points) - 1 THEN R(points[Len(points)].tdh)
  ELSE IF ~Crosses(flow, R(points[i].gpm), R(points[i + 1].gpm))
       THEN ScanFlows(points, flow, i + 1)
       ELSE HeadOnSegment(flow, R(points[i].gpm), R(points[i].tdh),
                          R(points[i + 1].gpm), R(points[i + 1].tdh))

forwardLookup(points, flow) ==
  ScanFlows(points, clamp(flow, MinOver(Flows(points), 1), MaxOver(Flows(points), 1)), 1)

(***************************************************************************)
(* Detailed status logic (src/app.js 1160-1212).  The curve store maps a   *)
(* model key to [rpmLines], a sequence of [rpm, points]; a line's label    *)
(* only names it in the explanation text and is not modelled.              *)
(***************************************************************************)
RECURSIVE MaxHeadOfPoints(_, _, _)
MaxHeadOfPoints(points, i, max) ==
  IF i > Len(points) THEN max
  ELSE MaxHeadOfPoints(points, i + 1, RMax(max, num(points[i].tdh, 0)))

RECURSIVE MaxHeadOfLines(_, _, _)
MaxHeadOfLines(lines, i, max) ==
  IF i > Len(lines) THEN max
  ELSE MaxHeadOfLines(lines, i + 1, MaxHeadOfPoints(lines[i].points, 1, max))

maxCurveTDH(cv, modelKey) ==
  IF modelKey \notin DOMAIN cv \/ Len(cv[modelKey].rpmLines) = 0 THEN R(0)
  ELSE MaxHeadOfLines(cv[modelKey].rpmLines, 1, R(0))

\* Array.prototype.sort with a comparator on the numeric key, which is stable:
\* x goes behind every element whose key is not greater than its own.
RECURSIVE InsertByKey(_, _)
InsertByKey(sorted, x) ==
  IF sorted = <<>> THEN <<x>>
  ELSE IF RLt(x.key, Head(sorted).key) THEN <<x>> \o sorted
  ELSE <<Head(sorted)>> \o InsertByKey(Tail(sorted), x)

RECURSIVE SortByKey(_, _)
SortByKey(xs, n) ==
  IF n = 0 THEN <<>> ELSE InsertByKey(SortByKey(xs, n - 1), xs[n])

\* Candidate with the quantity left out of the total.
Candidate_PerOnly(i, per, qty) ==
  [line |-> i, per |-> per, total |-> per, key |-> R(0)]

Candidate(i, per, qty) ==
  [line |-> i, per |-> per, total |-> RMul(per, R(qty)), key |-> R(0)]

\* The candidates of statusDetails: one entry per RPM line with a positive
\* flow at the target head.
Candidates(lines, tdh, qty) ==
  SelectSeq([i \in 1..Len(lines) |->
               Candidate(i, gpmAtTDH(lines[i].points, tdh), qty)],
            LAMBDA x : RGt(x.per, R(0)))

\* qty as statusDetails and the quantity input read it.
PumpQty(v) == IF Round(num(v, 1)) < 1 THEN 1 ELSE Round(num(v, 1))

\* A verdict that names no line.
NoLine(text, req, qty) ==
  [pass |-> FALSE, text |-> text, rpmLine |-> 0, per |-> R(0), total |-> R(0),
   capShown |-> R(0), reqShown |-> round1(req), qty |-> qty]

\* The verdict on the selected candidate.
Chosen(pass, best, req, qty) ==
  [pass |-> pass, text |-> IF pass THEN "PASS" ELSE "CLOSE",
   rpmLine |-> best.line, per |-> Norm(best.per), total |-> Norm(best.total),
   capShown |-> round1(best.total), reqShown |-> round1(req), qty |-> qty]

\* ByRpm with the comparator's operands exchanged.
ByRpm_Descending(ok, lines) ==
  [i \in 1..Len(ok) |-> [ok[i] EXCEPT !.key = RNeg(R(lines[ok[i].line].rpm))]]

\* The sort keys: (a.line.rpm || 0) - (b.line.rpm || 0), and b.total - a.total.
ByRpm(ok, lines) ==
  [i \in 1..Len(ok) |-> [ok[i] EXCEPT !.key = R(lines[ok[i].line].rpm)]]

ByTotalDesc(candidates) ==
  [i \in 1..Len(candidates) |->
     [candidates[i] EXCEPT !.key = RNeg(candidates[i].total)]]

\* src/app.js 1194-1211, on the candidates and those of them that meet req.
Verdict(lines, candidates, ok, req, qty) ==
  IF Len(ok) > 0
  THEN Chosen(TRUE, SortByKey(ByRpm(ok, lines), Len(ok))[1], req, qty)
  ELSE Chosen(FALSE, SortByKey(ByTotalDesc(candidates), Len(candidates))[1], req, qty)

\* MeetsReq with > for >=.
MeetsReq_Strict(candidates, req) == SelectSeq(candidates, LAMBDA x : RGt(x.total, req))

\* candidates.filter(x => x.total >= req) (src/app.js 1194).
MeetsReq(candidates, req) == SelectSeq(candidates, LAMBDA x : RGe(x.total, req))

\* src/app.js 1190-1194.
StatusOfCandidates(lines, candidates, req, qty) ==
  IF Len(candidates) = 0 THEN NoLine("CLOSE (No flow)", req, qty)
  ELSE Verdict(lines, candidates, MeetsReq(candidates, req), req, qty)

\* src/app.js 1180-1188.
StatusOnModel(lines, tdh, maxTDH, req, qty) ==
  IF RGt(tdh, maxTDH) /\ RGt(maxTDH, R(0))
  THEN NoLine("CLOSE (TDH too high)", req, qty)
  ELSE StatusOfCandidates(lines, Candidates(lines, tdh, qty), req, qty)

\* StatusWith testing only for the model, not for its rpmLines.
StatusWith_ModelOnly(cv, pump, req, qty) ==
  IF pump.model \notin DOMAIN cv
  THEN NoLine("CLOSE (No curve data)", req, qty)
  ELSE StatusOnModel(cv[pump.model].rpmLines, pump.tdh,
                     maxCurveTDH(cv, pump.model), req, qty)

\* src/app.js 1176-1180.
StatusWith(cv, pump, req, qty) ==
  IF pump.model \notin DOMAIN cv \/ Len(cv[pump.model].rpmLines) = 0
  THEN NoLine("CLOSE (No curve data)", req, qty)
  ELSE StatusOnModel(cv[pump.model].rpmLines, pump.tdh,
                     maxCurveTDH(cv, pump.model), req, qty)

\* The verdict of one pump: pass, the kind of explanation text, the selected
\* line (its index in the model's rpmLines, 0 for none) with its flow per
\* pump and its capacity, and the numbers the text shows.
statusDetails(st, cv, pump) ==
  StatusWith(cv, pump, systemRequiredFlow(st, pump.system), PumpQty(pump.qty))

(***************************************************************************)
(* Summary badges (src/app.js 1377-1420).                                  *)
(***************************************************************************)
\* anyPumpPassForPoolMode with the water-features tag left out of its test.
anyPumpPassForPoolMode_NoWater(st, cv) ==
  \E i \in 1..Len(st.pumps) :
    /\ st.pumps[i].system \in {"Shared", "Pool"}
    /\ statusDetails(st, cv, st.pumps[i]).pass

anyPumpPassForPoolMode(st, cv) ==
  \E i \in 1..Len(st.pumps) :
    /\ st.pumps[i].system \in {"Shared", "Pool", "Water"}
    /\ statusDetails(st, cv, st.pumps[i]).pass

anyPumpPassForSpaMode(st, cv) ==
  IF ~st.spa.enabled THEN FALSE
  ELSE LET spaTDH == st.spa.spaTDH
       IN  IF st.spa.setup = "shared"
           THEN \E i \in 1..Len(st.pumps) :
                  /\ st.pumps[i].system = "Shared"
                  /\ statusDetails(st, cv, [st.pumps[i] EXCEPT !.tdh = spaTDH]).pass
           ELSE \E i \in 1..Len(st.pumps) :
                  /\ st.pumps[i].system = "Spa"
                  /\ statusDetails(st, cv, [st.pumps[i] EXCEPT !.tdh = spaTDH]).pass

\* The badge text set by renderSummary for the pool side and for the spa.
PoolBadge(st, cv) == IF anyPumpPassForPoolMode(st, cv) THEN "PASS" ELSE "CLOSE"

\* SpaBadge with the dash decided by the spa's required flow.
SpaBadge_ByDemand(st, cv) ==
  IF Falsy(calcSpaRequiredFlowGPM(st)) THEN "-"
  ELSE IF anyPumpPassForSpaMode(st, cv) THEN "PASS" ELSE "CLOSE"

SpaBadge(st, cv) ==
  IF ~st.spa.enabled THEN "-"
  ELSE IF anyPumpPassForSpaMode(st, cv) THEN "PASS" ELSE "CLOSE"

\* One entry per pump row drawn by renderPumps.
PumpRows(st, cv) == [i \in 1..Len(st.pumps) |-> statusDetails(st, cv, st.pumps[i])]

\* null, in a stored or imported document, where a row, a pump, an RPM line
\* or a point is expected.
JsNull == [null |-> TRUE]

\* calcWaterFeaturesFlowGPM and renderWaterFeatures read wf.qty of every row.
RowsThrow(st) == \E i \in 1..Len(st.waterFeatures) : st.waterFeatures[i] = JsNull

\* maxCurveTDH reads line.points of every line and p.tdh of every point.
LineThrows(line) ==
  \/ line = JsNull
  \/ \E j \in 1..Len(line.points) : line.points[j] = JsNull

LinesThrow(cv, model) ==
  /\ model \in DOMAIN cv
  /\ \E l \in 1..Len(cv[model].rpmLines) : LineThrows(cv[model].rpmLines[l])

\* statusDetails raises a TypeError: on pump.model of a null pump, in the
\* required flow of a tag that reads the rows, or in maxCurveTDH.
statusDetailsThrows(st, cv, pump) ==
  \/ pump = JsNull
  \/ pump.system \notin {"Pool", "Spa"} /\ RowsThrow(st)
  \/ LinesThrow(cv, pump.model)

renderAllThrows(st, cv) ==
  \/ RowsThrow(st)
  \/ \E i \in 1..Len(st.pumps) : statusDetailsThrows(st, cv, st.pumps[i])

\* The pump rows on the page once renderAll has raised: untouched when
\* renderWaterFeatures raised, and otherwise the rows before the pump on
\* which statusDetails raised.
RowsBeforeThrow(st, cv) ==
  IF RowsThrow(st) THEN pumpRows
  ELSE [i \in 1..((CHOOSE k \in 1..Len(st.pumps) :
                      /\ statusDetailsThrows(st, cv, st.pumps[k])
                      /\ \A j \in 1..(k - 1) : ~statusDetailsThrows(st, cv, st.pumps[j])) - 1)
          |-> statusDetails(st, cv, st.pumps[i])]

\* What saveAll writes to local storage.
saveAll(st, cv) == [state |-> st, curves |-> cv]

\* renderAll on the globals as the handler leaves them.
renderAll(st, cv) ==
  /\ pumpRows' = PumpRows(st, cv)
  /\ badgePoolMode' = PoolBadge(st, cv)
  /\ badgeSpaMode' = SpaBadge(st, cv)
  /\ rendered' = TRUE

\* persistAndRecalc after the handler has written st.
persistAndRecalc(st) ==
  /\ state' = st
  /\ saved' = saveAll(st, curves)
  /\ UNCHANGED <<curves, selApplyTDH, alerts, lookup, parsing, raised>>
  /\ renderAll(st, curves)

(***************************************************************************)
(* TDH estimator (src/app.js 1219-1300).  Math.pow is tabulated: the       *)
(* friction per foot of pipe, 4.52 Q^1.85 / (C^1.85 d^4.87), is the        *)
(* product of its value at C = 140 and d = 2.5 with (140/C)^1.85 and       *)
(* (2.5/d)^4.87, each given at the knots below to the digits shown and     *)
(* interpolated linearly between them (beyond the last knot, along the     *)
(* last segment).                                                          *)
(***************************************************************************)
\* <<Q, 100000 * 4.52 Q^1.85 / (140^1.85 * 2.5^4.87)>>
BaseKnots ==
  << <<0, 0>>, <<1, 1>>, <<2, 2>>, <<5, 11>>, <<10, 40>>, <<20, 142>>, <<30, 302>>,
     <<40, 514>>, <<50, 776>>, <<60, 1087>>, <<80, 1852>>, <<90, 2302>>, <<96, 2594>>,
     <<100, 2798>>, <<120, 3920>>, <<140, 5214>>, <<150, 5924>>, <<180, 8300>>,
     <<200, 10086>>, <<250, 15241>>, <<300, 21355>>, <<400, 36362>>, <<450, 45214>>,
     <<500, 54945>>, <<600, 76986>>, <<800, 131084>>, <<1000, 198077>> >>

\* <<C, 1000 * (140/C)^1.85>>
RoughKnots ==
  << <<80, 2816>>, <<90, 2265>>, <<100, 1864>>, <<110, 1562>>, <<120, 1330>>,
     <<130, 1147>>, <<140, 1000>>, <<150, 880>>, <<160, 781>>, <<200, 517>> >>

\* <<2 d, 100000 * (2.5/d)^4.87>>
DiamKnots ==
  << <<2, 8669000>>, <<3, 1203000>>, <<4, 296500>>, <<5, 100000>>, <<6, 41150>>,
     <<8, 10140>>, <<10, 3420>>, <<12, 1407>> >>

\* The value at x of the line through knots i and i + 1, in units of 1 / unit.
OnSegment(knots, i, x, unit) ==
  RDiv(RAdd(RMul(R(knots[i][2]), RSub(R(knots[i + 1][1]), x)),
            RMul(R(knots[i + 1][2]), RSub(x, R(knots[i][1])))),
       R((knots[i + 1][1] - knots[i][1]) * unit))

RECURSIVE Tabulated(_, _, _, _)
Tabulated(knots, i, x, unit) ==
  IF REq(x, R(knots[i][1])) THEN Norm(<<knots[i][2], unit>>)
  ELSE IF i + 1 = Len(knots) \/ RLt(x, R(knots[i + 1][1]))
  THEN Norm(OnSegment(knots, i, x, unit))
  ELSE Tabulated(knots, i + 1, x, unit)

\* floor(r * 10^k / d) for 0 <= r < d.
RECURSIVE Decimals(_, _, _)
Decimals(r, d, k) ==
  IF k = 0 THEN 0
  ELSE ((r * 10) \div d) * (10 ^ (k - 1)) + Decimals((r * 10) % d, d, k - 1)

\* A non-negative x cut to five decimals.
Fix5(x) == Norm(<<(x[1] \div x[2]) * 100000 + Decimals(x[1] % x[2], x[2], 5), 100000>>)

\* 4.52 * Math.pow(Q, 1.85) / (Math.pow(C, 1.85) * Math.pow(d, 4.87)), Q > 0.
FrictionPerFoot(Q, C, d) ==
  Fix5(RMul(Fix5(RMul(Tabulated(BaseKnots, 1, Q, 100000),
                      Tabulated(RoughKnots, 1, C, 1000))),
            Tabulated(DiamKnots, 1, RMul(R(2), d), 100000)))

HazenWilliams(L, Q, C, d) ==
  IF RLe(Q, R(0)) \/ RLe(L, R(0)) THEN R(0)
  ELSE Norm(RMul(Norm(L), FrictionPerFoot(Norm(Q), Norm(C), Norm(d))))

EquivalentLength(eng) == RMax(R(0), RAdd(RMul(num(eng.eqDist, 0), R(2)), num(eng.fitAllow, 0)))

\* The friction computed with the roughness coefficient as entered.
FrictionFor_EnteredC(eng, flowGPM) ==
  HazenWilliams(EquivalentLength(eng), RMax(R(0), flowGPM), num(eng.C, 140),
                clamp(eng.pipeIn, R(1), R(6)))

\* The friction and the head that estimateTDHForFlow computes on the
\* engineering inputs eng.
FrictionFor(eng, flowGPM) ==
  HazenWilliams(EquivalentLength(eng), RMax(R(0), flowGPM),
                clamp(num(eng.C, 140), R(80), R(160)),
                clamp(eng.pipeIn, R(1), R(6)))

HeadFor(eng, flowGPM) ==
  Norm(RAdd(RAdd(FrictionFor(eng, flowGPM), num(eng.elev, 0)), num(eng.equipHead, 0)))

\* estimateTDHForFlow: the state with the three results stored.
estimateTDHForFlow(st, flowGPM) ==
  [st EXCEPT !.engineering.estimatedL = Norm(EquivalentLength(st.engineering)),
             !.engineering.estimatedFriction = FrictionFor(st.engineering, flowGPM),
             !.engineering.estimatedTDH = HeadFor(st.engineering, flowGPM)]

\* Math.max(...flows) over the pumps from i on, max being the greatest so far.
RECURSIVE MaxPumpFlow(_, _, _)
MaxPumpFlow(st, i, max) ==
  IF i > Len(st.pumps) THEN max
  ELSE MaxPumpFlow(st, i + 1, RMax(max, systemRequiredFlow(st, st.pumps[i].system)))

estimateFlowByScope(st, scope) ==
  IF scope = "pool" THEN calcPoolTurnoverFlowGPM(st)
  ELSE IF scope = "water" THEN calcWaterFeaturesFlowGPM(st)
  ELSE IF scope = "spa" THEN calcSpaRequiredFlowGPM(st)
  ELSE IF scope = "shared" THEN calcPoolRequiredFlowGPM(st)
  ELSE IF Len(st.pumps) > 0
  THEN MaxPumpFlow(st, 2, systemRequiredFlow(st, st.pumps[1].system))
  ELSE calcPoolRequiredFlowGPM(st)

\* el.selApplyTDH?.value || "all"
ScopeOf(sel) == IF sel = "" THEN "all" ELSE sel

ScopeMatches(mode, sys) ==
  \/ mode = "all"
  \/ mode = "shared" /\ sys = "Shared"
  \/ mode = "pool" /\ sys = "Pool"
  \/ mode = "water" /\ sys = "Water"
  \/ mode = "spa" /\ sys = "Spa"

\* applyEstimatedTDHToPumps writing every pump, whatever the scope.
applyEstimatedTDHToPumps_EveryPump(st, mode, tdh) ==
  [st EXCEPT !.pumps =
     [i \in 1..Len(st.pumps) |-> [st.pumps[i] EXCEPT !.tdh = round1(tdh)]]]

applyEstimatedTDHToPumps(st, mode, tdh) ==
  [st EXCEPT !.pumps =
     [i \in 1..Len(st.pumps) |->
        IF ScopeMatches(mode, st.pumps[i].system)
        THEN [st.pumps[i] EXCEPT !.tdh = round1(tdh)]
        ELSE st.pumps[i]]]

\* guardTDHEstimate without its ceiling on the flow.
guardTDHEstimate_NoFlowCeiling(flow, tdh) ==
  IF ~isFinite(flow) \/ RLe(flow, R(0)) THEN [kind |-> "flow invalid", shown |-> R(0)]
  ELSE IF ~isFinite(tdh) \/ RLe(tdh, R(0)) THEN [kind |-> "tdh invalid", shown |-> R(0)]
  ELSE IF RGt(tdh, R(200)) THEN [kind |-> "tdh high", shown |-> round1(tdh)]
  ELSE [kind |-> "none", shown |-> R(0)]

\* The alert that guardTDHEstimate raises, with the number its text shows;
\* kind "none" when every guard rail passes.
guardTDHEstimate(flow, tdh) ==
  IF ~isFinite(flow) \/ RLe(flow, R(0)) THEN [kind |-> "flow invalid", shown |-> R(0)]
  ELSE IF RGt(flow, R(400)) THEN [kind |-> "flow high", shown |-> round1(flow)]
  ELSE IF ~isFinite(tdh) \/ RLe(tdh, R(0)) THEN [kind |-> "tdh invalid", shown |-> R(0)]
  ELSE IF RGt(tdh, R(200)) THEN [kind |-> "tdh high", shown |-> round1(tdh)]
  ELSE [kind |-> "none", shown |-> R(0)]

(***************************************************************************)
(* Default data and state (src/app.js 957-1007).                           *)
(***************************************************************************)
Pt(g, t) == [gpm |-> g, tdh |-> t]

DEFAULT_CURVES ==
  [k \in {"Jandy VS FloPro 2.7 HP", "Jandy VS FloPro 1.85 HP",
          "Jandy FloPro FHPM 1.0 HP", "Jandy VS FloPro 3.8 HP"} |->
    IF k = "Jandy VS FloPro 2.7 HP" THEN
      [rpmLines |-> <<
        [rpm |-> 3450, points |-> <<Pt(0, 95), Pt(30, 92), Pt(60, 86), Pt(90, 75), Pt(120, 55), Pt(135, 44)>>],
        [rpm |-> 3000, points |-> <<Pt(0, 75), Pt(30, 71), Pt(60, 63), Pt(90, 50), Pt(120, 33)>>],
        [rpm |-> 2750, points |-> <<Pt(0, 63), Pt(30, 59), Pt(60, 54), Pt(90, 40), Pt(110, 26)>>] >>]
    ELSE IF k = "Jandy VS FloPro 1.85 HP" THEN
      [rpmLines |-> <<
        [rpm |-> 3450, points |-> <<Pt(0, 78), Pt(30, 74), Pt(60, 68), Pt(90, 58), Pt(110, 45), Pt(120, 32)>>],
        [rpm |-> 3000, points |-> <<Pt(0, 58), Pt(30, 55), Pt(60, 50), Pt(90, 38), Pt(105, 25)>>] >>]
    ELSE IF k = "Jandy FloPro FHPM 1.0 HP" THEN
      [rpmLines |-> <<
        [rpm |-> 3450, points |-> <<Pt(0, 56), Pt(25, 52), Pt(50, 44), Pt(70, 33), Pt(85, 22)>>],
        [rpm |-> 2400, points |-> <<Pt(0, 28), Pt(25, 25), Pt(50, 18), Pt(60, 12)>>] >>]
    ELSE
      [rpmLines |-> <<
        [rpm |-> 3450, points |-> <<Pt(0, 102), Pt(40, 98), Pt(80, 92), Pt(120, 78), Pt(160, 50), Pt(185, 38)>>],
        [rpm |-> 3000, points |-> <<Pt(0, 76), Pt(40, 74), Pt(80, 69), Pt(120, 56), Pt(160, 30)>>] >>]]

DefaultState ==
  [project |-> [poolVol |-> 18000, turnoverH |-> 6, turnoverCustom |-> <<>>],
   waterFeatures |-> <<[qty |-> 3, width |-> 2, gpmPerFt |-> 15]>>,
   spa |-> [enabled |-> FALSE, setup |-> "shared", spaVol |-> 600, spaTurnH |-> 6,
            jetsQty |-> 8, gpmPerJet |-> 12, spaTDH |-> R(50)],
   pumps |-> <<[model |-> "Jandy VS FloPro 2.7 HP", qty |-> 1,
                system |-> "Shared", tdh |-> R(50)],
               [model |-> "Jandy VS FloPro 2.7 HP", qty |-> 1,
                system |-> "Water", tdh |-> R(50)]>>,
   ui |-> [selectedPumpIndex |-> 0, curvesModalOpen |-> FALSE,
           curvesActiveModel |-> "Jandy VS FloPro 2.7 HP"],
   engineering |-> [eqDist |-> 0, fitAllow |-> 60, pipeIn |-> <<5, 2>>, elev |-> 0,
                    equipHead |-> 10, C |-> 140, estimatedTDH |-> NaN,
                    estimatedFriction |-> R(0), estimatedL |-> R(0)]]

\* No call of gpmAtTDH is held.
NoLookup == [points |-> <<>>, targetTDH |-> R(0), gpm |-> R(0), called |-> FALSE]

\* No call of parsePoints is held.
NoParsing == [text |-> <<>>, points |-> <<>>, called |-> FALSE]

\* Nothing is drawn before the first renderAll, nothing has been alerted or
\* raised, and the configuration is the one that local storage holds.
Blank ==
  /\ pumpRows = <<>>
  /\ badgePoolMode = ""
  /\ badgeSpaMode = ""
  /\ rendered = FALSE
  /\ alerts = <<>>
  /\ lookup = NoLookup
  /\ parsing = NoParsing
  /\ saved = saveAll(state, curves)
  /\ raised = FALSE

Init ==
  /\ state = DefaultState
  /\ curves = DEFAULT_CURVES
  /\ selApplyTDH = "all"
  /\ Blank

(***************************************************************************)
(* parsePoints (src/app.js 893-910).  A text is the sequence of its lines  *)
(* and a line the sequence of its characters.                              *)
(***************************************************************************)
\* line.split(/[,\s;]+/) with the empty parts dropped: cur is the part being
\* read and acc the parts read.
RECURSIVE SplitParts(_, _, _)
SplitParts(s, cur, acc) ==
  IF s = <<>> THEN (IF cur = <<>> THEN acc ELSE Append(acc, cur))
  ELSE IF Head(s) \in {",", ";", " ", "\t"}
       THEN SplitParts(Tail(s), <<>>, IF cur = <<>> THEN acc ELSE Append(acc, cur))
       ELSE SplitParts(Tail(s), Append(cur, Head(s)), acc)

\* The points pushed for one line: none or one.
PointOfParts(parts) ==
  IF Len(parts) < 2 THEN <<>>
  ELSE IF ~isFinite(numText(parts[1], NaN)) \/ ~isFinite(numText(parts[2], NaN)) THEN <<>>
  ELSE <<[gpm |-> numText(parts[1], NaN)[1], tdh |-> numText(parts[2], NaN)[1]]>>

RECURSIVE PushPoints(_, _)
PushPoints(lines, i) ==
  IF i > Len(lines) THEN <<>>
  ELSE PointOfParts(SplitParts(lines[i], <<>>, <<>>)) \o PushPoints(lines, i + 1)

\* pts.sort((a, b) => a.gpm - b.gpm), which is stable.
RECURSIVE InsertByGpm(_, _)
InsertByGpm(sorted, x) ==
  IF sorted = <<>> THEN <<x>>
  ELSE IF x.gpm < Head(sorted).gpm THEN <<x>> \o sorted
  ELSE <<Head(sorted)>> \o InsertByGpm(Tail(sorted), x)

RECURSIVE SortByGpm(_, _)
SortByGpm(xs, n) ==
  IF n = 0 THEN <<>> ELSE InsertByGpm(SortByGpm(xs, n - 1), xs[n])

parsePoints(text) == SortByGpm(PushPoints(text, 1), Len(PushPoints(text, 1)))

(***************************************************************************)
(* Start-up (src/app.js 1851-1853) and the handlers of bind() and of the   *)
(* rows (src/app.js 1353-1361, 1476-1491, 1723-1752, 1823).                *)
(***************************************************************************)
Start ==
  /\ ~rendered
  /\ ~raised
  /\ UNCHANGED <<state, curves, selApplyTDH, alerts, lookup, parsing, saved>>
  /\ IF renderAllThrows(state, curves)
     THEN /\ raised' = TRUE
          /\ pumpRows' = RowsBeforeThrow(state, curves)
          /\ UNCHANGED <<badgePoolMode, badgeSpaMode, rendered>>
     ELSE /\ renderAll(state, curves)
          /\ UNCHANGED raised

Recalc ==
  /\ rendered
  /\ persistAndRecalc(state)

SetPoolVol(v) ==
  /\ rendered
  /\ persistAndRecalc([state EXCEPT !.project.poolVol = v])

SetTurnover(v) ==
  /\ rendered
  /\ persistAndRecalc([state EXCEPT !.project.turnoverH = v])

SetTurnCustom(text) ==
  /\ rendered
  /\ persistAndRecalc([state EXCEPT !.project.turnoverCustom = text])

AddWF ==
  /\ rendered
  /\ Len(state.waterFeatures) < MaxWF
  /\ persistAndRecalc([state EXCEPT !.waterFeatures =
                         Append(@, [qty |-> 1, width |-> 2, gpmPerFt |-> 15])])

SetWFQty(i, v) ==
  /\ rendered
  /\ i \in 1..Len(state.waterFeatures)
  /\ persistAndRecalc([state EXCEPT !.waterFeatures[i].qty = v])

SetWFWidth(i, v) ==
  /\ rendered
  /\ i \in 1..Len(state.waterFeatures)
  /\ persistAndRecalc([state EXCEPT !.waterFeatures[i].width = v])

SetWFGpmPerFt(i, v) ==
  /\ rendered
  /\ i \in 1..Len(state.waterFeatures)
  /\ persistAndRecalc([state EXCEPT !.waterFeatures[i].gpmPerFt = v])

RemoveAt(xs, i) == [j \in 1..(Len(xs) - 1) |-> IF j < i THEN xs[j] ELSE xs[j + 1]]

\* Rows carry ids drawn by id8(), taken to be distinct: filtering by the
\* row's id removes that row.
RemoveWF(i) ==
  /\ rendered
  /\ i \in 1..Len(state.waterFeatures)
  /\ persistAndRecalc([state EXCEPT !.waterFeatures = RemoveAt(@, i)])

SetSpaEnabled(b) ==
  /\ rendered
  /\ persistAndRecalc([state EXCEPT !.spa.enabled = b])

SetSpaSetup(v) ==
  /\ rendered
  /\ persistAndRecalc([state EXCEPT !.spa.setup = v])

SetSpaVol(v) ==
  /\ rendered
  /\ persistAndRecalc([state EXCEPT !.spa.spaVol = v])

SetSpaTurnH(v) ==
  /\ rendered
  /\ persistAndRecalc([state EXCEPT !.spa.spaTurnH = v])

SetSpaJetsQty(v) ==
  /\ rendered
  /\ persistAndRecalc([state EXCEPT !.spa.jetsQty = v])

SetGpmPerJet(v) ==
  /\ rendered
  /\ persistAndRecalc([state EXCEPT !.spa.gpmPerJet = v])

SetSpaTDH(v) ==
  /\ rendered
  /\ persistAndRecalc([state EXCEPT !.spa.spaTDH = R(v)])

\* Object.keys(curves)[0] of the default curve store.
FirstModelKey == "Jandy VS FloPro 2.7 HP"

AddPump ==
  /\ rendered
  /\ Len(state.pumps) < MaxPumps
  /\ persistAndRecalc([state EXCEPT
        !.pumps = Append(@, [model |-> FirstModelKey, qty |-> 1,
                             system |-> "Shared", tdh |-> R(50)]),
        !.ui.selectedPumpIndex = Len(state.pumps)])

SetPumpModel(i, k) ==
  /\ rendered
  /\ i \in 1..Len(state.pumps)
  /\ persistAndRecalc([state EXCEPT !.pumps[i].model = k,
                                     !.ui.selectedPumpIndex = i - 1])

SetPumpQty(i, v) ==
  /\ rendered
  /\ i \in 1..Len(state.pumps)
  /\ persistAndRecalc([state EXCEPT !.pumps[i].qty = PumpQty(v)])

SetPumpSystem(i, v) ==
  /\ rendered
  /\ i \in 1..Len(state.pumps)
  /\ persistAndRecalc([state EXCEPT !.pumps[i].system = v])

SetPumpTDH(i, v) ==
  /\ rendered
  /\ i \in 1..Len(state.pumps)
  /\ persistAndRecalc([state EXCEPT !.pumps[i].tdh = R(v)])

\* A click on a pump row outside its controls: only the curve viewer is redrawn.
SelectPumpRow(i) ==
  /\ rendered
  /\ i \in 1..Len(state.pumps)
  /\ state' = [state EXCEPT !.ui.selectedPumpIndex = i - 1]
  /\ UNCHANGED <<curves, pumpRows, badgePoolMode, badgeSpaMode, rendered,
                 selApplyTDH, alerts, lookup, parsing, saved, raised>>

IntClamp(v, a, b) == IF v < a THEN a ELSE IF v > b THEN b ELSE v

\* The remove button leaving the selected index as it was.
RemovePump_KeepIndex(i) ==
  /\ rendered
  /\ i \in 1..Len(state.pumps)
  /\ persistAndRecalc([state EXCEPT !.pumps = RemoveAt(@, i)])

RemovePump(i) ==
  /\ rendered
  /\ i \in 1..Len(state.pumps)
  /\ persistAndRecalc([state EXCEPT
        !.pumps = RemoveAt(@, i),
        !.ui.selectedPumpIndex =
           IntClamp(@, 0, IF Len(state.pumps) - 2 > 0 THEN Len(state.pumps) - 2 ELSE 0)])

\* The apply scope is picked in its select; no handler listens to it.
SetApplyScope(v) ==
  /\ rendered
  /\ selApplyTDH' = v
  /\ UNCHANGED <<state, curves, pumpRows, badgePoolMode, badgeSpaMode, rendered,
                 alerts, lookup, parsing, saved, raised>>

\* The Estimate click where a guard rail fails: the alert, then renderSummary.
EstimateRefused(st, alert) ==
  /\ Len(alerts) < MaxAlerts
  /\ alerts' = Append(alerts, alert)
  /\ state' = st
  /\ badgePoolMode' = PoolBadge(st, curves)
  /\ badgeSpaMode' = SpaBadge(st, curves)
  /\ UNCHANGED <<curves, pumpRows, rendered, selApplyTDH, lookup, parsing, saved, raised>>

\* The Estimate click on the state st that estimateTDHForFlow leaves.
EstimateWith(st, scope, alert) ==
  IF alert.kind # "none" THEN EstimateRefused(st, alert)
  ELSE persistAndRecalc(applyEstimatedTDHToPumps(st, scope, st.engineering.estimatedTDH))

EstimateFor(scope, flowForEst) ==
  EstimateWith(estimateTDHForFlow(state, flowForEst), scope,
               guardTDHEstimate(flowForEst, HeadFor(state.engineering, flowForEst)))

Estimate ==
  /\ rendered
  /\ EstimateFor(ScopeOf(selApplyTDH), estimateFlowByScope(state, ScopeOf(selApplyTDH)))

\* The engineering inputs are stored and saved; nothing is recalculated.
SetEngineering(eng) ==
  /\ rendered
  /\ state' = [state EXCEPT !.engineering = eng]
  /\ saved' = saveAll([state EXCEPT !.engineering = eng], curves)
  /\ UNCHANGED <<curves, pumpRows, badgePoolMode, badgeSpaMode, rendered,
                 selApplyTDH, alerts, lookup, parsing, raised>>

SetEqDist(v) == SetEngineering([state.engineering EXCEPT !.eqDist = v])

SetFitAllow(v) == SetEngineering([state.engineering EXCEPT !.fitAllow = v])

SetPipeIn(v) == SetEngineering([state.engineering EXCEPT !.pipeIn = v])

SetElev(v) == SetEngineering([state.engineering EXCEPT !.elev = v])

SetEquipHead(v) == SetEngineering([state.engineering EXCEPT !.equipHead = v])

SetC(v) == SetEngineering([state.engineering EXCEPT !.C = v])

(***************************************************************************)
(* The curve editor (src/app.js 1617-1713).  The editor works on the live  *)
(* curve store: its inputs write into the lines of the active model.       *)
(***************************************************************************)
\* Object.keys(cv)[0]: the default store keeps its first model first.
FirstKeyOf(cv) ==
  IF FirstModelKey \in DOMAIN cv THEN FirstModelKey ELSE CHOOSE k \in DOMAIN cv : TRUE

\* renderCurvesModal: what it leaves in state (the active model falls back
\* to the first model when the store does not hold it).
renderCurvesModal(st, cv) ==
  IF DOMAIN cv = {} \/ st.ui.curvesActiveModel \in DOMAIN cv THEN st
  ELSE [st EXCEPT !.ui.curvesActiveModel = FirstKeyOf(cv)]

\* state.pumps[state.ui.selectedPumpIndex] || state.pumps[0], as the set of
\* the models the modal may open on (empty when there is no such pump).
OpenOnModels(st, cv) ==
  { st.pumps[i].model : i \in { j \in 1..Len(st.pumps) :
        /\ j = (IF st.ui.selectedPumpIndex + 1 \in 1..Len(st.pumps)
                THEN st.ui.selectedPumpIndex + 1 ELSE 1)
        /\ st.pumps[j].model \in DOMAIN cv } }

openCurvesModal(st, cv) ==
  renderCurvesModal(
    [st EXCEPT !.ui.curvesModalOpen = TRUE,
               !.ui.curvesActiveModel =
                  IF OpenOnModels(st, cv) = {} THEN @
                  ELSE CHOOSE m \in OpenOnModels(st, cv) : TRUE], cv)

\* The editor's handlers write state and curves and draw nothing on the page.
EditorOnly(st, cv) ==
  /\ state' = st
  /\ curves' = cv
  /\ UNCHANGED <<pumpRows, badgePoolMode, badgeSpaMode, rendered, selApplyTDH,
                 alerts, lookup, parsing, saved, raised>>

OpenCurvesModal ==
  /\ rendered
  /\ ~state.ui.curvesModalOpen
  /\ EditorOnly(openCurvesModal(state, curves), curves)

CloseCurvesModal ==
  /\ rendered
  /\ state.ui.curvesModalOpen
  /\ EditorOnly([state EXCEPT !.ui.curvesModalOpen = FALSE], curves)

SelectCurveTab(k) ==
  /\ rendered
  /\ state.ui.curvesModalOpen
  /\ k \in DOMAIN curves
  /\ EditorOnly([state EXCEPT !.ui.curvesActiveModel = k], curves)

\* The lines the modal shows cards for.
ActiveLines == curves[state.ui.curvesActiveModel].rpmLines

EditorShows(idx) ==
  /\ rendered
  /\ state.ui.curvesModalOpen
  /\ state.ui.curvesActiveModel \in DOMAIN curves
  /\ idx \in 1..Len(ActiveLines)

\* The RPM input of a card: line.rpm = Math.round(num(inRpm.value, 0)).
EditLineRpm(idx, v) ==
  /\ EditorShows(idx)
  /\ EditorOnly(state, [curves EXCEPT
        ![state.ui.curvesActiveModel].rpmLines[idx].rpm = Round(num(v, 0))])

\* The points textarea of a card: line.points = parsePoints(taPts.value).
EditLinePoints(idx, text) ==
  /\ EditorShows(idx)
  /\ EditorOnly(state, [curves EXCEPT
        ![state.ui.curvesActiveModel].rpmLines[idx].points = parsePoints(text)])

\* The remove button of a card.
RemoveRPMLine(idx) ==
  /\ EditorShows(idx)
  /\ EditorOnly(state, [curves EXCEPT
        ![state.ui.curvesActiveModel].rpmLines = RemoveAt(@, idx)])

AddedLine == [rpm |-> 2400, points |-> <<Pt(0, 40), Pt(50, 25), Pt(90, 10)>>]

AddRPMLine ==
  /\ rendered
  /\ state.ui.curvesModalOpen
  /\ state.ui.curvesActiveModel \in DOMAIN curves
  /\ Len(ActiveLines) < MaxLines
  /\ EditorOnly(state, [curves EXCEPT
        ![state.ui.curvesActiveModel].rpmLines = Append(@, AddedLine)])

\* persistAndRecalc after a handler has written st and the curve store cv:
\* saveAll, then renderAll, which redraws the modal when it is open.
persistAndRecalcCurves(st, cv) ==
  /\ saved' = saveAll(st, cv)
  /\ curves' = cv
  /\ UNCHANGED <<selApplyTDH, alerts, lookup, parsing, raised>>
  /\ renderAll(st, cv)

ResetCurves ==
  /\ rendered
  /\ state.ui.curvesModalOpen
  /\ state' = [state EXCEPT !.ui.curvesActiveModel = FirstKeyOf(DEFAULT_CURVES)]
  /\ persistAndRecalcCurves(
       [state EXCEPT !.ui.curvesActiveModel = FirstKeyOf(DEFAULT_CURVES)],
       DEFAULT_CURVES)

\* The lines as saveCurvesAndClose rewrites them: the speed rounded.
SavedLines(lines) ==
  [i \in 1..Len(lines) |-> [lines[i] EXCEPT !.rpm = Round(num(@, 0))]]

SavedCurves(cv) == [k \in DOMAIN cv |-> [cv[k] EXCEPT !.rpmLines = SavedLines(@)]]

\* Save and close: the store is saved and the page redrawn with the modal
\* still open, and then the modal is closed.
SaveCurvesAndClose ==
  /\ rendered
  /\ state.ui.curvesModalOpen
  /\ state' = [renderCurvesModal(state, SavedCurves(curves)) EXCEPT
                  !.ui.curvesModalOpen = FALSE]
  /\ persistAndRecalcCurves(state, SavedCurves(curves))

(***************************************************************************)
(* Import (src/app.js 1799-1820).  A file is text that is not JSON, the    *)
(* JSON text null, or a document that may hold a state and curves.         *)
(***************************************************************************)
\* Object.assign(a, b) on two objects.
ObjectAssign(a, b) ==
  [f \in DOMAIN a \cup DOMAIN b |-> IF f \in DOMAIN b THEN b[f] ELSE a[f]]

\* The state after the handler has merged the document's state ds into it:
\* the objects are assigned field by field and the arrays replaced.
MergeState(st, ds) ==
  [k \in DOMAIN st |->
     IF k \in {"waterFeatures", "pumps"} THEN ds[k] ELSE ObjectAssign(st[k], ds[k])]

ImportedState(st, doc) == IF doc.hasState THEN MergeState(st, doc.state) ELSE st

ImportedCurves(cv, doc) == IF doc.hasCurves THEN doc.curves ELSE cv

InvalidJSON == [kind |-> "invalid json", shown |-> R(0)]

\* JSON.parse raises on the text, or parsed.state raises on null: the catch
\* alerts and nothing else has happened.
ImportUnreadable ==
  /\ Len(alerts) < MaxAlerts
  /\ alerts' = Append(alerts, InvalidJSON)
  /\ UNCHANGED <<state, curves, pumpRows, badgePoolMode, badgeSpaMode, rendered,
                 selApplyTDH, lookup, parsing, saved, raised>>

\* The document is merged into state and curves and persistAndRecalc runs:
\* saveAll, then renderAll.  When renderAll raises, the catch alerts; the
\* merge and the save have happened.
ImportDocument(st, cv) ==
  /\ state' = st
  /\ curves' = cv
  /\ saved' = saveAll(st, cv)
  /\ UNCHANGED <<selApplyTDH, lookup, parsing>>
  /\ IF renderAllThrows(st, cv)
     THEN /\ Len(alerts) < MaxAlerts
          /\ alerts' = Append(alerts, InvalidJSON)
          /\ raised' = TRUE
          /\ pumpRows' = RowsBeforeThrow(st, cv)
          /\ UNCHANGED <<badgePoolMode, badgeSpaMode, rendered>>
     ELSE /\ renderAll(st, cv)
          /\ UNCHANGED <<alerts, raised>>

\* The file input is bound once init() has run bind().
Import(doc) ==
  /\ rendered \/ raised
  /\ IF doc.kind # "document" THEN ImportUnreadable
     ELSE ImportDocument(ImportedState(state, doc), ImportedCurves(curves, doc))

(***************************************************************************)
(* The tool driven through its handlers from the default state.            *)
(***************************************************************************)
Systems == {"Pool", "Water", "Spa", "Shared"}

\* What the handlers are given: the values of the controls.
PoolVolInputs == {0, 18000}
TurnoverOptions == {6, 8}
TurnCustomInputs == {<<>>}
WFQtyInputs == {3}
WFWidthInputs == {2}
WFGpmPerFtInputs == {15}
SpaSetups == {"shared", "dedicated"}
SpaVolInputs == {600}
SpaTurnHInputs == {6}
SpaJetsQtyInputs == {8}
GpmPerJetInputs == {12}
SpaTDHInputs == {50}
PumpModelInputs == {"Jandy VS FloPro 2.7 HP", "Jandy FloPro FHPM 1.0 HP"}
PumpQtyInputs == {1}
PumpTDHInputs == {50}
ApplyScopes == {"all", "shared", "pool", "water", "spa"}
EqDistInputs == {40}
FitAllowInputs == {60}
PipeInInputs == {<<5, 2>>}
ElevInputs == {0}
EquipHeadInputs == {10}
CInputs == {140}
\* The files imported: text that is not JSON, and the default configuration
\* as Export writes it.
ExportedDocs ==
  { [kind |-> "text", hasState |-> FALSE, state |-> DefaultState,
     hasCurves |-> FALSE, curves |-> DEFAULT_CURVES],
    [kind |-> "document", hasState |-> TRUE, state |-> DefaultState,
     hasCurves |-> TRUE, curves |-> DEFAULT_CURVES] }
\* The texts typed into a points textarea: a curve that states the flow 30
\* twice, and a lower curve.
EditorTexts ==
  { << <<"0", ",", "4", "0">>, <<"3", "0", " ", "2", "0">>, <<"3", "0", ";", "1", "0">> >>,
    << <<"0", ",", "4", "0">>, <<"6", "0", ",", " ", "0">> >> }

EditorRpmInputs == {2400}

Next ==
  \/ Start
  \/ Recalc
  \/ \E v \in PoolVolInputs : SetPoolVol(v)
  \/ \E v \in TurnoverOptions : SetTurnover(v)
  \/ \E t \in TurnCustomInputs : SetTurnCustom(t)
  \/ AddWF
  \/ \E i \in 1..MaxWF, v \in WFQtyInputs : SetWFQty(i, v)
  \/ \E i \in 1..MaxWF, v \in WFWidthInputs : SetWFWidth(i, v)
  \/ \E i \in 1..MaxWF, v \in WFGpmPerFtInputs : SetWFGpmPerFt(i, v)
  \/ \E i \in 1..MaxWF : RemoveWF(i)
  \/ \E b \in BOOLEAN : SetSpaEnabled(b)
  \/ \E v \in SpaSetups : SetSpaSetup(v)
  \/ \E v \in SpaVolInputs : SetSpaVol(v)
  \/ \E v \in SpaTurnHInputs : SetSpaTurnH(v)
  \/ \E v \in SpaJetsQtyInputs : SetSpaJetsQty(v)
  \/ \E v \in GpmPerJetInputs : SetGpmPerJet(v)
  \/ \E v \in SpaTDHInputs : SetSpaTDH(v)
  \/ AddPump
  \/ \E i \in 1..MaxPumps, k \in PumpModelInputs : SetPumpModel(i, k)
  \/ \E i \in 1..MaxPumps, v \in PumpQtyInputs : SetPumpQty(i, v)
  \/ \E i \in 1..MaxPumps, v \in Systems : SetPumpSystem(i, v)
  \/ \E i \in 1..MaxPumps, v \in PumpTDHInputs : SetPumpTDH(i, v)
  \/ \E i \in 1..MaxPumps : SelectPumpRow(i)
  \/ \E i \in 1..MaxPumps : RemovePump(i)
  \/ \E v \in ApplyScopes : SetApplyScope(v)
  \/ Estimate
  \/ \E v \in EqDistInputs : SetEqDist(v)
  \/ \E v \in FitAllowInputs : SetFitAllow(v)
  \/ \E v \in PipeInInputs : SetPipeIn(v)
  \/ \E v \in ElevInputs : SetElev(v)
  \/ \E v \in EquipHeadInputs : SetEquipHead(v)
  \/ \E v \in CInputs : SetC(v)
  \/ OpenCurvesModal
  \/ CloseCurvesModal
  \/ \E k \in PumpModelInputs : SelectCurveTab(k)
  \/ \E idx \in 1..MaxLines, v \in EditorRpmInputs : EditLineRpm(idx, v)
  \/ \E idx \in 1..MaxLines, text \in EditorTexts : EditLinePoints(idx, text)
  \/ \E idx \in 1..MaxLines : RemoveRPMLine(idx)
  \/ AddRPMLine
  \/ ResetCurves
  \/ SaveCurvesAndClose
  \/ \E doc \in ExportedDocs : Import(doc)

Spec == Init /\ [][Next]_vars

(***************************************************************************)
(* The pump matcher on its own: the tool starts on a stored configuration  *)
(* with one pump and a curve store holding one model "M", and draws it.    *)
(* The lines are ones the curve editor produces (points ascending by       *)
(* flow): two falling curves, the line that Add RPM inserts, a line with a *)
(* single point, a line whose heads are all 0 and a line whose head rises  *)
(* before it falls.                                                        *)
(***************************************************************************)
MatchLines ==
  { [rpm |-> 3450, points |-> <<Pt(0, 95), Pt(60, 86), Pt(120, 55)>>],
    [rpm |-> 3000, points |-> <<Pt(0, 75), Pt(60, 63), Pt(120, 33)>>],
    [rpm |-> 2400, points |-> <<Pt(0, 40), Pt(50, 25), Pt(90, 10)>>],
    [rpm |-> 3000, points |-> <<Pt(0, 50)>>],
    [rpm |-> 1000, points |-> <<Pt(0, 0), Pt(50, 0)>>],
    [rpm |-> 3000, points |-> <<Pt(0, 50), Pt(40, 70), Pt(80, 30)>>] }

MatchTDH == {0, 25, 50, 75, 100}

SeqsUpTo(S, n) == UNION {[1..k -> S] : k \in 0..n}

MatchStates ==
  { [DefaultState EXCEPT !.project.poolVol = vol, !.waterFeatures = wf,
                         !.pumps = <<[model |-> m, qty |-> q, system |-> sys,
                                      tdh |-> R(t)]>>] :
      vol \in {0, 18000},
      wf \in {<<>>, DefaultState.waterFeatures},
      m \in {"M", "X"}, q \in 1..MaxQty, sys \in Systems, t \in MatchTDH }

InitMatch ==
  /\ selApplyTDH = "all"
  /\ state \in MatchStates
  /\ curves \in {[k \in {"M"} |-> [rpmLines |-> ls]] : ls \in SeqsUpTo(MatchLines, MaxLines)}
  /\ Blank

NextMatch == Start

SpecMatch == InitMatch /\ [][NextMatch]_vars

(***************************************************************************)
(* The required flows and the summary badges on their own: the tool starts *)
(* on a stored configuration with up to MaxPumps pumps of one model with   *)
(* two falling curves, and draws it.                                       *)
(***************************************************************************)
SystemCurves ==
  [k \in {"M"} |-> [rpmLines |-> <<
     [rpm |-> 3450, points |-> <<Pt(0, 95), Pt(60, 86), Pt(120, 55)>>],
     [rpm |-> 3000, points |-> <<Pt(0, 75), Pt(60, 63), Pt(120, 33)>>] >>]]

SystemPumps ==
  { [model |-> "M", qty |-> 1, system |-> sys, tdh |-> R(t)] :
      sys \in Systems, t \in {50, 100} }

SystemStates ==
  { [DefaultState EXCEPT !.project.poolVol = vol, !.waterFeatures = wf,
                         !.spa.enabled = en, !.spa.setup = setup,
                         !.spa.jetsQty = jets, !.spa.spaVol = svol,
                         !.pumps = ps] :
      vol \in {0, 18000},
      wf \in {<<>>, DefaultState.waterFeatures},
      en \in BOOLEAN, setup \in SpaSetups,
      jets \in {0, 8}, svol \in {0, 600},
      ps \in SeqsUpTo(SystemPumps, MaxPumps) }

InitSystem ==
  /\ selApplyTDH = "all"
  /\ state \in SystemStates
  /\ curves = SystemCurves
  /\ Blank

NextSystem == Start

SpecSystem == InitSystem /\ [][NextSystem]_vars

(***************************************************************************)
(* The estimator on its own: the tool starts on a stored configuration     *)
(* with up to MaxPumps pumps and the scope select on any of its options    *)
(* (a reload keeps the option picked before), and Estimate is clicked.     *)
(* The engineering inputs are the defaults (60 ft of pipe), a longer run,  *)
(* a negative distance (no pipe at all), a narrow pipe with C = 200        *)
(* entered, and a fall and a rise in elevation; the water features are none, the default row (90 GPM) and a  *)
(* row of 450 GPM.                                                         *)
(***************************************************************************)
EstimateEngineering ==
  { DefaultState.engineering,
    [DefaultState.engineering EXCEPT !.eqDist = 40],
    [DefaultState.engineering EXCEPT !.eqDist = -100],
    [DefaultState.engineering EXCEPT !.C = 200, !.pipeIn = R(1)],
    [DefaultState.engineering EXCEPT !.elev = -100],
    [DefaultState.engineering EXCEPT !.elev = 250] }

EstimatePumps ==
  { [model |-> "M", qty |-> 1, system |-> sys, tdh |-> R(50)] : sys \in Systems }

EstimateStates ==
  { [DefaultState EXCEPT !.project.poolVol = vol, !.waterFeatures = wf,
                         !.engineering = eng, !.pumps = ps] :
      vol \in {0, 18000},
      wf \in {<<>>, DefaultState.waterFeatures,
              <<[qty |-> 15, width |-> 2, gpmPerFt |-> 15]>>},
      eng \in EstimateEngineering,
      ps \in SeqsUpTo(EstimatePumps, MaxPumps) }

InitEstimate ==
  /\ selApplyTDH \in ApplyScopes
  /\ state \in EstimateStates
  /\ curves = SystemCurves
  /\ Blank

NextEstimate ==
  \/ Start
  \/ Estimate

SpecEstimate == InitEstimate /\ [][NextEstimate]_vars

(***************************************************************************)
(* parsePoints on its own: one call on a text of up to MaxTextLines lines, *)
(* each a pair with one of the separators, a pair with a repeated flow, a  *)
(* line with a third field, a line with one field, an empty line, or a     *)
(* line whose first field is not a number or only starts with one.         *)
(***************************************************************************)
ParseLines ==
  { <<"0", ",", "4", "0">>,
    <<"3", "0", " ", "2", "0">>,
    <<"3", "0", ";", "1", "0">>,
    <<"6", "0", ",", " ", "0">>,
    <<"1", ",", "2", ",", "3">>,
    <<"7">>,
    <<>>,
    <<"a", "b", "c", ",", "5">>,
    <<"1", "2", "a", "b", "c", ",", "5">> }

InitParse ==
  /\ state = DefaultState
  /\ curves = DEFAULT_CURVES
  /\ selApplyTDH = "all"
  /\ pumpRows = <<>>
  /\ badgePoolMode = ""
  /\ badgeSpaMode = ""
  /\ rendered = FALSE
  /\ alerts = <<>>
  /\ lookup = NoLookup
  /\ saved = saveAll(state, curves)
  /\ raised = FALSE
  /\ parsing \in { [text |-> t, points |-> <<>>, called |-> FALSE] :
                     t \in SeqsUpTo(ParseLines, MaxTextLines) }

CallParsePoints ==
  /\ ~parsing.called
  /\ parsing' = [parsing EXCEPT !.points = parsePoints(parsing.text), !.called = TRUE]
  /\ UNCHANGED <<state, curves, pumpRows, badgePoolMode, badgeSpaMode, rendered,
                 selApplyTDH, alerts, lookup, saved, raised>>

NextParse == CallParsePoints

SpecParse == InitParse /\ [][NextParse]_vars

(***************************************************************************)
(* The curve editor on its own: the tool starts on a stored configuration  *)
(* with one pump of the model "M", whose single line is a falling curve,   *)
(* and the editor is opened, its cards edited, lines added and removed,    *)
(* and the store saved.  The texts typed into a points textarea are a      *)
(* curve that states the flow 30 twice and a lower curve.                  *)
(***************************************************************************)
EditorCurves ==
  [k \in {"M"} |-> [rpmLines |-> <<
     [rpm |-> 3450, points |-> <<Pt(0, 95), Pt(60, 86), Pt(120, 55)>>] >>]]

EditorStates ==
  { [DefaultState EXCEPT !.waterFeatures = <<>>,
                         !.pumps = <<[model |-> "M", qty |-> 1, system |-> sys,
                                      tdh |-> R(t)]>>] :
      sys \in {"Pool", "Shared"}, t \in {25, 50} }

InitCurves ==
  /\ selApplyTDH = "all"
  /\ state \in EditorStates
  /\ curves = EditorCurves
  /\ Blank

NextCurves ==
  \/ Start
  \/ OpenCurvesModal
  \/ CloseCurvesModal
  \/ \E idx \in 1..MaxLines, v \in EditorRpmInputs : EditLineRpm(idx, v)
  \/ \E idx \in 1..MaxLines, text \in EditorTexts : EditLinePoints(idx, text)
  \/ \E idx \in 1..MaxLines : RemoveRPMLine(idx)
  \/ AddRPMLine
  \/ SaveCurvesAndClose

SpecCurves == InitCurves /\ [][NextCurves]_vars

(***************************************************************************)
(* Import on its own: the tool starts on a stored configuration with one   *)
(* pump of the model "M" and files are imported.  The documents hold a     *)
(* state, curves, both or neither; their states hold one pump, a pump list *)
(* with null in it or a water feature list with null in it, and their      *)
(* curves a falling line, null for a line or null for a point.  The other  *)
(* files are text that is not JSON and the JSON text null.                 *)
(***************************************************************************)
ImportPump == [model |-> "M", qty |-> 1, system |-> "Pool", tdh |-> R(50)]

ImportStates ==
  { [DefaultState EXCEPT !.waterFeatures = wf, !.pumps = ps] :
      wf \in {<<>>, <<JsNull>>, DefaultState.waterFeatures},
      ps \in {<<ImportPump>>, <<[ImportPump EXCEPT !.system = "Shared"]>>,
              <<JsNull>>, <<ImportPump, JsNull>>} }

ImportCurves ==
  { EditorCurves,
    [k \in {"M"} |-> [rpmLines |-> <<JsNull>>]],
    [k \in {"M"} |-> [rpmLines |-> <<
       [rpm |-> 3450, points |-> <<Pt(0, 95), JsNull, Pt(120, 55)>>] >>]] }

ImportDocs ==
  { [kind |-> k, hasState |-> hs, state |-> st, hasCurves |-> hc, curves |-> cv] :
      k \in {"document"}, hs \in BOOLEAN, st \in ImportStates,
      hc \in BOOLEAN, cv \in ImportCurves }
  \cup
  { [kind |-> k, hasState |-> FALSE, state |-> DefaultState,
     hasCurves |-> FALSE, curves |-> EditorCurves] : k \in {"text", "null"} }

InitImport ==
  /\ selApplyTDH = "all"
  /\ state \in EditorStates
  /\ curves = EditorCurves
  /\ Blank

NextImport ==
  \/ Start
  \/ \E doc \in ImportDocs : Import(doc)

SpecImport == InitImport /\ [][NextImport]_vars

(***************************************************************************)
(* The pump list on its own: the tool starts on the default configuration  *)
(* and pumps are added, removed, selected, given a model and tagged Pool.  *)
(***************************************************************************)
InitPumps ==
  /\ state = DefaultState
  /\ curves = DEFAULT_CURVES
  /\ selApplyTDH = "all"
  /\ Blank

NextPumps ==
  \/ Start
  \/ AddPump
  \/ \E i \in 1..MaxPumps : RemovePump(i)
  \/ \E i \in 1..MaxPumps : SelectPumpRow(i)
  \/ \E i \in 1..MaxPumps, k \in PumpModelInputs : SetPumpModel(i, k)
  \/ \E i \in 1..MaxPumps : SetPumpSystem(i, "Pool")

SpecPumps == InitPumps /\ [][NextPumps]_vars

(***************************************************************************)
(* The flow requirements on their own: the tool starts on a configuration  *)
(* with one water feature row and no pump, and the fields of the project,  *)
(* of the row and of the spa are typed over; the number inputs accept      *)
(* negative numbers.                                                       *)
(***************************************************************************)
FlowPoolVolInputs == {-18000, 0, 18000}
FlowTurnoverInputs == {6, 8}
FlowQtyInputs == {0, 3}
FlowWidthInputs == {-2, 2}
FlowSpaVolInputs == {-600, 0, 600}
FlowSpaTurnHInputs == {-6, 0, 6}
FlowJetsQtyInputs == {0, 8}

InitFlows ==
  /\ state = [DefaultState EXCEPT !.pumps = <<>>]
  /\ curves = SystemCurves
  /\ selApplyTDH = "all"
  /\ Blank

NextFlows ==
  \/ Start
  \/ \E v \in FlowPoolVolInputs : SetPoolVol(v)
  \/ \E v \in FlowTurnoverInputs : SetTurnover(v)
  \/ \E v \in FlowQtyInputs : SetWFQty(1, v)
  \/ \E v \in FlowWidthInputs : SetWFWidth(1, v)
  \/ \E v \in FlowSpaVolInputs : SetSpaVol(v)
  \/ \E v \in FlowSpaTurnHInputs : SetSpaTurnH(v)
  \/ \E v \in FlowJetsQtyInputs : SetSpaJetsQty(v)

SpecFlows == InitFlows /\ [][NextFlows]_vars

(***************************************************************************)
(* gpmAtTDH on its own: one call on a point list of up to MaxPoints points *)
(* as the curve store can hold them after an import (in any order, flows   *)
(* repeated or not) and on a target head that is a number or, for the      *)
(* function taken by itself, NaN or an infinity.                           *)
(***************************************************************************)
LookupPoints == { Pt(g, t) : g \in {0, 30, 60}, t \in {0, 20, 40} }

LookupTargets ==
  { R(-10), R(0), R(10), R(20), R(30), R(40), R(50), R(75), NaN, <<1, 0>>, <<-1, 0>> }

\* The 3450 RPM line of the first default model.
ScenarioPoints == DEFAULT_CURVES[FirstModelKey].rpmLines[1].points

InitLookup ==
  /\ state = DefaultState
  /\ curves = DEFAULT_CURVES
  /\ selApplyTDH = "all"
  /\ pumpRows = <<>>
  /\ badgePoolMode = ""
  /\ badgeSpaMode = ""
  /\ rendered = FALSE
  /\ alerts = <<>>
  /\ parsing = NoParsing
  /\ saved = saveAll(state, curves)
  /\ raised = FALSE
  /\ lookup \in { [points |-> ps, targetTDH |-> t, gpm |-> R(0), called |-> FALSE] :
                    ps \in SeqsUpTo(LookupPoints, MaxPoints) \cup {ScenarioPoints},
                    t \in LookupTargets }

CallGpmAtTDH ==
  /\ ~lookup.called
  /\ lookup' = [lookup EXCEPT !.gpm = Norm(gpmAtTDH(lookup.points, lookup.targetTDH)),
                              !.called = TRUE]
  /\ UNCHANGED <<state, curves, pumpRows, badgePoolMode, badgeSpaMode, rendered,
                 selApplyTDH, alerts, parsing, saved, raised>>

NextLookup == CallGpmAtTDH

SpecLookup == InitLookup /\ [][NextLookup]_vars

(***************************************************************************)
(* What the claims speak of, stated on the configuration.                  *)
(***************************************************************************)
HasModel(pump) == pump.model \in DOMAIN curves

LinesOf(pump) == IF HasModel(pump) THEN curves[pump.model].rpmLines ELSE <<>>

ReqOf(pump) == systemRequiredFlow(state, pump.system)

\* Flow of line l at the pump's target head, and its capacity.
PerOf(pump, l) == gpmAtTDH(LinesOf(pump)[l].points, pump.tdh)

CapOf(pump, l) == RMul(PerOf(pump, l), R(pump.qty))

LineIds(pump) == 1..Len(LinesOf(pump))

\* Lines with capacity >= the required flow, as the claims count them.
Reaching(pump) == {l \in LineIds(pump) : RGe(CapOf(pump, l), ReqOf(pump))}

\* Lines with a positive flow at the target head, and those of them that
\* reach the required flow.
Flowing(pump) == {l \in LineIds(pump) : RGt(PerOf(pump, l), R(0))}

Qualified(pump) == {l \in Flowing(pump) : RGe(CapOf(pump, l), ReqOf(pump))}

RpmOf(pump, l) == LinesOf(pump)[l].rpm

\* l has the lowest rpm of the lines in S, and is the first listed of those.
LowestRpmIn(pump, l, S) ==
  /\ l \in S
  /\ \A k \in S : RpmOf(pump, l) <= RpmOf(pump, k)
  /\ \A k \in S : RpmOf(pump, l) = RpmOf(pump, k) => l <= k

\* l has the greatest capacity of the lines in S.
GreatestCapIn(pump, l, S) ==
  /\ l \in S
  /\ \A k \in S : RGe(CapOf(pump, l), CapOf(pump, k))

\* The heads of all points of all lines of the pump's model.
AllHeads(pump) ==
  UNION {{LinesOf(pump)[l].points[j].tdh : j \in 1..Len(LinesOf(pump)[l].points)} :
           l \in LineIds(pump)}

\* The target head is above the model's maximum head.
AboveMaxHead(pump) ==
  /\ AllHeads(pump) # {}
  /\ \A h \in AllHeads(pump) : RGt(pump.tdh, R(h))

Usable(pump) == {l \in LineIds(pump) : Len(LinesOf(pump)[l].points) >= 2}

PumpIds == 1..Len(state.pumps)

\* C1 as claimed: the lowest-rpm line among all lines whose capacity reaches
\* the required flow is selected and passes; if there is none, the line with
\* the greatest capacity is selected and fails.
C1_AsClaimedAt(pump, row) ==
  IF Reaching(pump) # {}
  THEN row.pass /\ LowestRpmIn(pump, row.rpmLine, Reaching(pump))
  ELSE ~row.pass /\ GreatestCapIn(pump, row.rpmLine, LineIds(pump))

C1_AsClaimed ==
  rendered =>
    \A i \in PumpIds :
      Len(LinesOf(state.pumps[i])) > 0 => C1_AsClaimedAt(state.pumps[i], pumpRows[i])

C1_SelectionAt(pump, row) ==
  IF Qualified(pump) # {}
  THEN row.pass /\ LowestRpmIn(pump, row.rpmLine, Qualified(pump))
  ELSE IF Flowing(pump) # {}
  THEN ~row.pass /\ GreatestCapIn(pump, row.rpmLine, Flowing(pump))
  ELSE ~row.pass /\ row.rpmLine = 0

\* C1 (amended): among the lines with a positive flow at the target head, the
\* lowest-rpm line (the first listed on a tie) whose capacity reaches the
\* required flow is selected and the verdict is pass; if none of them reaches
\* it, the one with the greatest capacity is selected and the verdict is
\* failing; if no line has a positive flow, the verdict is failing and no line
\* is selected.
C1_SelectionPolicy ==
  rendered =>
    \A i \in PumpIds :
      Len(LinesOf(state.pumps[i])) > 0 => C1_SelectionAt(state.pumps[i], pumpRows[i])

\* Two lines flow, only the faster one reaches the required flow, and it is
\* the one selected, with PASS.
C1_Witness ==
  /\ rendered
  /\ \E i \in PumpIds :
       /\ pumpRows[i].pass
       /\ Cardinality(Qualified(state.pumps[i])) = 1
       /\ \E k \in Flowing(state.pumps[i]) \ Qualified(state.pumps[i]) :
            RpmOf(state.pumps[i], k) < RpmOf(state.pumps[i], pumpRows[i].rpmLine)

\* No line reaches the required flow and the line of greatest capacity, which
\* is not the first listed, is selected with a failing verdict.
C1_WitnessFailing ==
  /\ rendered
  /\ \E i \in PumpIds :
       /\ ~pumpRows[i].pass
       /\ pumpRows[i].rpmLine > 1
       /\ Cardinality(Flowing(state.pumps[i])) = 2

\* C2 as claimed: with a usable line and a target head not above the model's
\* maximum head, the verdict is PASS exactly when the capacity of the selected
\* line is >= the required flow, a required flow of 0 and a flow of 0 included.
C2_AsClaimedAt(pump, row) ==
  (Usable(pump) # {} /\ ~AboveMaxHead(pump)) =>
     (row.pass <=> RGe(row.total, ReqOf(pump)))

C2_AsClaimed ==
  rendered => \A i \in PumpIds : C2_AsClaimedAt(state.pumps[i], pumpRows[i])

C2_VerdictAt(pump, row) ==
  (Usable(pump) # {} /\ ~AboveMaxHead(pump)) =>
     /\ row.rpmLine # 0 <=> Flowing(pump) # {}
     /\ row.rpmLine # 0 => REq(row.total, CapOf(pump, row.rpmLine))
     /\ row.pass <=> (row.rpmLine # 0 /\ RGe(row.total, ReqOf(pump)))

\* C2 (amended): with a usable line and a target head not above the model's
\* maximum head, a line is selected exactly when some line has a positive flow
\* at the target head, and the verdict is PASS exactly when a line is selected
\* and its capacity is >= the required flow; when no line has a positive flow
\* the verdict is CLOSE, also for a required flow of 0.
C2_VerdictByCapacity ==
  rendered => \A i \in PumpIds : C2_VerdictAt(state.pumps[i], pumpRows[i])

\* A verdict of PASS on a capacity equal to a positive required flow.
C2_Witness ==
  /\ rendered
  /\ \E i \in PumpIds :
       /\ pumpRows[i].pass
       /\ RGt(ReqOf(state.pumps[i]), R(0))
       /\ REq(pumpRows[i].total, ReqOf(state.pumps[i]))

\* C3: a target head greater than the maximum head over all points of all
\* lines of the model gets a failing verdict, whatever the quantity and the
\* required flow.
C3_HeadTooHighFails ==
  rendered =>
    \A i \in PumpIds : AboveMaxHead(state.pumps[i]) => ~pumpRows[i].pass

\* A target head above the maximum head, a required flow of 0, a quantity of
\* more than one pump, and a failing verdict.
C3_Witness ==
  /\ rendered
  /\ \E i \in PumpIds :
       /\ AboveMaxHead(state.pumps[i])
       /\ REq(ReqOf(state.pumps[i]), R(0))
       /\ state.pumps[i].qty > 1
       /\ ~pumpRows[i].pass

NoCurveText == "CLOSE (No curve data)"

C4_NoCurveAt(pump, row) ==
  /\ row.text = NoCurveText <=> (~HasModel(pump) \/ Len(LinesOf(pump)) = 0)
  /\ Usable(pump) = {} =>
       /\ ~row.pass
       /\ row.rpmLine = 0
       /\ row.text \in {NoCurveText, "CLOSE (TDH too high)", "CLOSE (No flow)"}

C4_WitnessUnusable ==
  /\ rendered
  /\ \E i \in PumpIds :
       /\ Len(LinesOf(state.pumps[i])) > 0
       /\ Usable(state.pumps[i]) = {}
       /\ pumpRows[i].text = "CLOSE (No flow)"

\* The verdict on the pump with its quantity changed to k times what it is.
AtQty(pump, k) == StatusWith(curves, pump, ReqOf(pump), PumpQty(k * pump.qty))

\* C5 as claimed: changing the quantity from q to k*q multiplies the total
\* capacity of the verdict by k.
C5_AsClaimed ==
  rendered =>
    \A i \in PumpIds : \A k \in 1..MaxK :
      REq(AtQty(state.pumps[i], k).total, RMul(R(k), pumpRows[i].total))

C5_ScalingAt(row, scaled, k) ==
  /\ scaled.rpmLine = row.rpmLine => REq(scaled.total, RMul(R(k), row.total))
  /\ ~scaled.pass => scaled.rpmLine = row.rpmLine
  /\ row.pass => scaled.pass

\* C5 (amended): changing the quantity from q to k*q multiplies the capacity
\* of the selected line (before it is rounded for display) by k whenever the
\* same line is selected at both quantities, which is so whenever the verdict
\* at k*q is failing; a verdict that passes at q passes at k*q, where a slower
\* line may be selected.
C5_CapacityScaling ==
  rendered =>
    \A i \in PumpIds : \A k \in 1..MaxK :
      C5_ScalingAt(pumpRows[i], AtQty(state.pumps[i], k), k)

\* A failing verdict whose positive capacity doubles with the quantity and
\* stays short of the required flow.
C5_Witness ==
  /\ rendered
  /\ \E i \in PumpIds :
       /\ RGt(pumpRows[i].total, R(0))
       /\ ~AtQty(state.pumps[i], 2).pass
       /\ REq(AtQty(state.pumps[i], 2).total, RMul(R(2), pumpRows[i].total))

(***************************************************************************)
(* Required flows and system status.                                       *)
(***************************************************************************)
HasTag(tag) == \E i \in PumpIds : state.pumps[i].system = tag

SpaShared == state.spa.enabled /\ state.spa.setup = "shared"

\* C6: whenever some pump is tagged Water, the required flow of the Shared
\* tag is the pool turnover flow only, without the water-features flow.
C6_SharedWithoutWaterFeatures ==
  rendered =>
    (HasTag("Water") =>
       REq(systemRequiredFlow(state, "Shared"), calcPoolTurnoverFlowGPM(state)))

\* C7: the required flow of the Shared tag is poolRequiredFlow when the spa is
\* disabled or dedicated, and max(poolRequiredFlow, spaRequiredFlow) when the
\* spa is enabled and shared.
C7_SharedRaisedBySpa ==
  rendered =>
    REq(systemRequiredFlow(state, "Shared"),
        IF SpaShared
        THEN RMax(calcPoolRequiredFlowGPM(state), calcSpaRequiredFlowGPM(state))
        ELSE calcPoolRequiredFlowGPM(state))

\* C8: the required flow of the Spa tag is spaRequiredFlow when the spa is
\* enabled and 0 when it is disabled; that of the Pool tag is the pool
\* turnover flow, that of the Water tag the water-features flow.
C8_RequiredFlowByTag ==
  rendered =>
    /\ REq(systemRequiredFlow(state, "Spa"),
           IF state.spa.enabled THEN calcSpaRequiredFlowGPM(state) ELSE R(0))
    /\ REq(systemRequiredFlow(state, "Pool"), calcPoolTurnoverFlowGPM(state))
    /\ REq(systemRequiredFlow(state, "Water"), calcWaterFeaturesFlowGPM(state))

\* The sum of the capacities of the pumps i..n tagged tag, as drawn.
RECURSIVE GroupCapacity(_, _)
GroupCapacity(tag, i) ==
  IF i > Len(state.pumps) THEN R(0)
  ELSE IF state.pumps[i].system = tag
  THEN RAdd(pumpRows[i].total, GroupCapacity(tag, i + 1))
  ELSE GroupCapacity(tag, i + 1)

\* A group passes as claimed: an assignment, no head above the maximum, and
\* the sum of the capacities >= the required flow of the tag.
GroupPasses(tag) ==
  /\ HasTag(tag)
  /\ \A i \in PumpIds : state.pumps[i].system = tag => ~AboveMaxHead(state.pumps[i])
  /\ RGe(GroupCapacity(tag, 1), systemRequiredFlow(state, tag))

\* C9 as claimed: the pool-side status passes exactly when a group of
\* pool-side assignments passes on the sum of its capacities.
C9_AsClaimed ==
  rendered =>
    (badgePoolMode = "PASS" <=> \E tag \in {"Shared", "Pool", "Water"} : GroupPasses(tag))

\* The pump has a line with a positive flow at head tdh whose capacity reaches
\* the required flow of the pump's tag.
PassesAlone(pump, tdh) == Qualified([pump EXCEPT !.tdh = tdh]) # {}

SpaTag == IF state.spa.setup = "shared" THEN "Shared" ELSE "Spa"

\* C9 (amended): the pool-side status passes exactly when at least one single
\* assignment tagged Shared, Pool or Water has, at its target head, a line with
\* a positive flow whose capacity alone is >= the required flow of its tag;
\* the spa status passes exactly when the spa is enabled and one assignment of
\* the spa's tag (Shared for a shared spa, Spa otherwise) does so at the spa's
\* head.  Capacities are not summed, an assignment whose head is above its
\* model's maximum does not keep another one from passing, and with no
\* assignment nothing passes.
C9_AnyPumpPasses ==
  rendered =>
    /\ badgePoolMode = "PASS" <=>
         \E i \in PumpIds :
           /\ state.pumps[i].system \in {"Shared", "Pool", "Water"}
           /\ PassesAlone(state.pumps[i], state.pumps[i].tdh)
    /\ badgeSpaMode = "PASS" <=>
         /\ state.spa.enabled
         /\ \E i \in PumpIds :
              /\ state.pumps[i].system = SpaTag
              /\ PassesAlone(state.pumps[i], state.spa.spaTDH)

\* Two Shared pumps that each fall short of the required flow and together
\* exceed it, and the pool-side status does not pass.
C9_Witness ==
  /\ rendered
  /\ badgePoolMode = "CLOSE"
  /\ Len(state.pumps) = 2
  /\ \A i \in PumpIds : state.pumps[i].system = "Shared" /\ RGt(pumpRows[i].total, R(0))
  /\ RGe(GroupCapacity("Shared", 1), systemRequiredFlow(state, "Shared"))

\* A pump tagged Water passes while a Shared pump has its head above the
\* model's maximum, and the pool-side status passes.
C9_WitnessHardFail ==
  /\ rendered
  /\ badgePoolMode = "PASS"
  /\ \E i \in PumpIds : state.pumps[i].system = "Shared" /\ AboveMaxHead(state.pumps[i])
  /\ \E i \in PumpIds : state.pumps[i].system = "Water" /\ pumpRows[i].pass
  /\ \A i \in PumpIds : state.pumps[i].system \in {"Shared", "Water"}

DemandFlow == estimateFlowByScope(state, selApplyTDH)

EstimatedHead == HeadFor(state.engineering, DemandFlow)

GuardRailFails ==
  \/ ~isFinite(DemandFlow) \/ RLe(DemandFlow, R(0)) \/ RGt(DemandFlow, R(400))
  \/ ~isFinite(EstimatedHead) \/ RLe(EstimatedHead, R(0)) \/ RGt(EstimatedHead, R(200))

\* The tag that a scope other than "all" names.
TagOfScope ==
  IF selApplyTDH = "shared" THEN "Shared"
  ELSE IF selApplyTDH = "pool" THEN "Pool"
  ELSE IF selApplyTDH = "water" THEN "Water"
  ELSE "Spa"

InScope(pump) == selApplyTDH = "all" \/ pump.system = TagOfScope

SamePumpsButHeads ==
  /\ Len(state'.pumps) = Len(state.pumps)
  /\ \A i \in PumpIds :
       state'.pumps[i] = [state.pumps[i] EXCEPT !.tdh = state'.pumps[i].tdh]

\* C11: an Estimate on which a guard rail fails (demand flow <= 0 or above
\* 400 GPM, estimated head <= 0 or above 200 ft) leaves the target head of
\* every pump assignment as it was.
C11_RefusedEstimateKeepsHeads ==
  [][(Estimate /\ GuardRailFails) => state'.pumps = state.pumps]_vars

\* A demand flow of 500 GPM has been refused with the high-flow warning, the
\* head estimated for it is stored, and every pump still has its head of 50.
C11_Witness ==
  /\ rendered
  /\ alerts # <<>>
  /\ alerts[1] = [kind |-> "flow high", shown |-> R(500)]
  /\ isFinite(state.engineering.estimatedTDH)
  /\ ~REq(round1(state.engineering.estimatedTDH), R(50))
  /\ state.pumps # <<>>
  /\ \A i \in PumpIds : state.pumps[i].tdh = R(50)

\* C12 as claimed: after an Estimate on which every guard rail passes, the
\* pumps in scope have the estimated head as their target head and the others
\* keep theirs.
C12_AsClaimed ==
  [][(Estimate /\ ~GuardRailFails) =>
       /\ SamePumpsButHeads
       /\ \A i \in PumpIds :
            IF InScope(state.pumps[i])
            THEN REq(state'.pumps[i].tdh, EstimatedHead)
            ELSE state'.pumps[i].tdh = state.pumps[i].tdh]_vars

\* C12 (amended): after an Estimate on which every guard rail passes, every
\* pump whose tag matches the selected scope has the estimated head rounded
\* to one decimal as its target head, and every other pump keeps its target
\* head; nothing else of the pumps changes.
C12_EstimateAppliedInScope ==
  [][(Estimate /\ ~GuardRailFails) =>
       /\ SamePumpsButHeads
       /\ \A i \in PumpIds :
            IF InScope(state.pumps[i])
            THEN state'.pumps[i].tdh = round1(EstimatedHead)
            ELSE state'.pumps[i].tdh = state.pumps[i].tdh]_vars

\* With the scope on pool, a Pool pump has the estimated head, rounded, which
\* is not the head it had, and a Shared pump still has its head of 50.
C12_Witness ==
  /\ rendered
  /\ alerts = <<>>
  /\ selApplyTDH = "pool"
  /\ isFinite(state.engineering.estimatedTDH)
  /\ ~REq(round1(state.engineering.estimatedTDH), state.engineering.estimatedTDH)
  /\ \E i \in PumpIds :
       /\ state.pumps[i].system = "Pool"
       /\ state.pumps[i].tdh = round1(state.engineering.estimatedTDH)
       /\ state.pumps[i].tdh # R(50)
  /\ \E i \in PumpIds :
       /\ state.pumps[i].system = "Shared"
       /\ state.pumps[i].tdh = R(50)

\* C13: a warning is not raised again for an Estimate on the inputs that have
\* just been warned about: no warning is followed by the same warning while
\* the configuration stays as it is (as it does between two Estimates that
\* are refused).
C13_WarningNotRepeated ==
  \A i \in 1..(Len(alerts) - 1) : alerts[i + 1] # alerts[i]

\* 2 * (one-way equipment distance) + extra fitting allowance.
RoundTripLength(eng) == RAdd(RMul(R(2), R(eng.eqDist)), R(eng.fitAllow))

\* 4.52 * L * Q^1.85 / (C^1.85 * d^4.87) for Q >= 0.
FrictionFormula(L, Q, C, d) ==
  IF Q[1] = 0 THEN R(0) ELSE Norm(RMul(L, FrictionPerFoot(Q, C, d)))

HeadFormula(eng, L, Q, C, d) ==
  Norm(RAdd(RAdd(FrictionFormula(L, Q, C, d), R(eng.elev)), R(eng.equipHead)))

\* C23 as claimed: Estimate stores L = 2 * eqDist + fitAllow and the head
\* friction(L, Q, C, d) + elev + equipHead with C and d as entered.
C23_AsClaimed ==
  [][Estimate =>
       /\ state'.engineering.estimatedL = Norm(RoundTripLength(state.engineering))
       /\ state'.engineering.estimatedTDH =
            HeadFormula(state.engineering, RoundTripLength(state.engineering),
                        DemandFlow, R(state.engineering.C), state.engineering.pipeIn)]_vars

LengthUsed(eng) == RMax(R(0), RoundTripLength(eng))

\* C23 (amended): Estimate stores L = max(0, 2 * eqDist + fitAllow) and the
\* head friction + elev + equipHead, where friction is 0 when L is 0 and
\* otherwise the Hazen-Williams value at L, the demand flow, C clamped to
\* [80, 160] and d clamped to [1, 6].
C23_EstimateFormula ==
  [][Estimate =>
       /\ state'.engineering.estimatedL = Norm(LengthUsed(state.engineering))
       /\ state'.engineering.estimatedTDH =
            HeadFormula(state.engineering, LengthUsed(state.engineering), DemandFlow,
                        clamp(R(state.engineering.C), R(80), R(160)),
                        clamp(state.engineering.pipeIn, R(1), R(6)))
       /\ state'.engineering.estimatedTDH =
            Norm(RAdd(RAdd(state'.engineering.estimatedFriction, R(state.engineering.elev)),
                      R(state.engineering.equipHead)))]_vars

\* An estimate made with C = 200 entered: the friction stored is the one at
\* C = 160, and the head was applied.
C23_Witness ==
  /\ state.engineering.C = 200
  /\ alerts = <<>>
  /\ RGt(state.engineering.estimatedFriction, R(0))
  /\ state.engineering.estimatedTDH =
       HeadFor([state.engineering EXCEPT !.C = 160], DemandFlow)
  /\ state.engineering.estimatedTDH #
       HeadFormula(state.engineering, LengthUsed(state.engineering), DemandFlow,
                   R(200), state.engineering.pipeIn)

(***************************************************************************)
(* The inverse lookup.                                                     *)
(***************************************************************************)
HeadsOf(points) == {R(points[i].tdh) : i \in 1..Len(points)}

FlowsOf(points) == {R(points[i].gpm) : i \in 1..Len(points)}

AboveEveryHead(points, t) == \A h \in HeadsOf(points) : RGt(t, h)

BelowEveryHead(points, t) == \A h \in HeadsOf(points) : RLt(t, h)

StrictlyInside(points, t) ==
  /\ \E lo \in HeadsOf(points) : RLt(lo, t)
  /\ \E hi \in HeadsOf(points) : RGt(hi, t)

LastIsMaxFlow(points) ==
  \A g \in FlowsOf(points) : RLe(g, R(points[Len(points)].gpm))

\* C14: on at least 2 points, gpmAtTDH gives 0 for a target head greater than
\* the maximum head of the points.
C14_AboveMaxHeadGivesZero ==
  (lookup.called /\ Len(lookup.points) >= 2
     /\ AboveEveryHead(lookup.points, lookup.targetTDH))
    => lookup.gpm = R(0)

\* A finite target head above the maximum head of points whose last flow is
\* not 0, answered with 0.
C14_Witness ==
  /\ lookup.called
  /\ Len(lookup.points) >= 2
  /\ isFinite(lookup.targetTDH)
  /\ AboveEveryHead(lookup.points, lookup.targetTDH)
  /\ lookup.points[Len(lookup.points)].gpm > 0
  /\ lookup.gpm = R(0)

\* C15: on at least 2 points of which the last is the maximum-flow point,
\* gpmAtTDH gives the maximum flow for a target head below the minimum head
\* of the points.
C15_BelowMinHeadGivesMaxFlow ==
  (lookup.called /\ Len(lookup.points) >= 2
     /\ BelowEveryHead(lookup.points, lookup.targetTDH)
     /\ LastIsMaxFlow(lookup.points))
    => /\ lookup.gpm \in FlowsOf(lookup.points)
       /\ \A g \in FlowsOf(lookup.points) : RLe(g, lookup.gpm)

\* A finite target head below the minimum head of three points of rising
\* flow, answered with the flow of the last one.
C15_Witness ==
  /\ lookup.called
  /\ Len(lookup.points) = 3
  /\ isFinite(lookup.targetTDH)
  /\ BelowEveryHead(lookup.points, lookup.targetTDH)
  /\ lookup.points[1].gpm < lookup.points[2].gpm
  /\ lookup.points[2].gpm < lookup.points[3].gpm
  /\ lookup.gpm = R(lookup.points[3].gpm)

\* C16: gpmAtTDH gives 0 on fewer than 2 points, and gives 0 for a target
\* head that is NaN, +Infinity or -Infinity on any points.
C16_ZeroOnShortOrNonFinite ==
  (lookup.called /\ (Len(lookup.points) < 2 \/ ~isFinite(lookup.targetTDH)))
    => lookup.gpm = R(0)

\* C17: on at least 2 points and for a target head strictly between their
\* minimum and maximum head, the forward lookup of the flow that gpmAtTDH
\* gives is the target head.
C17_RoundTrip ==
  (lookup.called /\ Len(lookup.points) >= 2
     /\ isFinite(lookup.targetTDH)
     /\ StrictlyInside(lookup.points, lookup.targetTDH))
    => REq(forwardLookup(lookup.points, lookup.gpm), lookup.targetTDH)

\* The heads of points i and i + 1 bracket t, in either direction.
Brackets(points, i, t) ==
  \/ RLe(R(points[i + 1].tdh), t) /\ RLe(t, R(points[i].tdh))
  \/ RLe(R(points[i].tdh), t) /\ RLe(t, R(points[i + 1].tdh))

FirstBracket(points, t) ==
  CHOOSE i \in 1..(Len(points) - 1) :
    /\ Brackets(points, i, t)
    /\ \A j \in 1..(i - 1) : ~Brackets(points, j, t)

\* The flow at head t on the straight line from point i to point i + 1, and
\* the flow of point i when the two heads are the same.
FlowOnSegment(points, i, t) ==
  IF points[i].tdh = points[i + 1].tdh THEN R(points[i].gpm)
  ELSE RAdd(R(points[i].gpm),
            RDiv(RMul(RSub(t, R(points[i].tdh)), R(points[i + 1].gpm - points[i].gpm)),
                 R(points[i + 1].tdh - points[i].tdh)))

WithinHeads(points, t) ==
  /\ isFinite(t)
  /\ ~AboveEveryHead(points, t)
  /\ ~BelowEveryHead(points, t)

\* C24: for a target head from the minimum to the maximum head of at least 2
\* points, gpmAtTDH gives the flow interpolated on the first pair of
\* consecutive points whose heads bracket the target, and the first point's
\* flow when the two heads are the same; on the 3450 RPM line of the first
\* default model the flow at head 75 is 90.
C24_FirstBracketingSegment ==
  (lookup.called /\ Len(lookup.points) >= 2
     /\ WithinHeads(lookup.points, lookup.targetTDH))
    => /\ \E i \in 1..(Len(lookup.points) - 1) :
            Brackets(lookup.points, i, lookup.targetTDH)
       /\ REq(lookup.gpm,
              FlowOnSegment(lookup.points,
                            FirstBracket(lookup.points, lookup.targetTDH),
                            lookup.targetTDH))
       /\ (lookup.points = ScenarioPoints /\ lookup.targetTDH = R(75))
            => lookup.gpm = R(90)

\* Two segments bracket head 20 with different flows, and the flow given is
\* that of the first.
C24_Witness ==
  /\ lookup.called
  /\ lookup.points = <<Pt(0, 40), Pt(30, 0), Pt(60, 40)>>
  /\ lookup.targetTDH = R(20)
  /\ lookup.gpm = R(15)

\* The flows of the points do not fall along the sequence.
SortedByFlow(points) ==
  \A i \in 1..(Len(points) - 1) : points[i].gpm <= points[i + 1].gpm

\* C29: on points sorted ascending by flow and for every target head,
\* gpmAtTDH gives 0 or a flow from the first point's to the last point's; it
\* is not negative when no flow is, and never above the greatest flow.
C29_ResultWithinFlows ==
  (lookup.called /\ SortedByFlow(lookup.points))
    => /\ \/ lookup.gpm = R(0)
          \/ /\ Len(lookup.points) >= 1
             /\ RLe(R(lookup.points[1].gpm), lookup.gpm)
             /\ RLe(lookup.gpm, R(lookup.points[Len(lookup.points)].gpm))
       /\ (\A g \in FlowsOf(lookup.points) : RGe(g, R(0))) => RGe(lookup.gpm, R(0))
       /\ \A g \in FlowsOf(lookup.points) :
            (\A h \in FlowsOf(lookup.points) : RLe(h, g)) => RLe(lookup.gpm, g)

\* A flow strictly between the first and the last flow of sorted points.
C29_Witness ==
  /\ lookup.called
  /\ Len(lookup.points) = 3
  /\ SortedByFlow(lookup.points)
  /\ RLt(R(lookup.points[1].gpm), lookup.gpm)
  /\ RLt(lookup.gpm, R(lookup.points[3].gpm))
  /\ lookup.gpm # R(lookup.points[2].gpm)

\* Along the sequence the flows do not fall and the heads do not rise.
FallingLine(points) ==
  \A i \in 1..(Len(points) - 1) :
    /\ points[i].gpm <= points[i + 1].gpm
    /\ points[i].tdh >= points[i + 1].tdh

\* The heads at which the pump is tried again: 0, 5, ..., 100.
ProbeHeads == {5 * k : k \in 0..20}

AllLinesFalling(pump) ==
  \A l \in LineIds(pump) : FallingLine(LinesOf(pump)[l].points)

\* No line of the pump's model flows more at head t than at the pump's
\* target head, and the pump does not pass at t unless its row passes.
NoGainAt(pump, row, t) ==
  /\ \A l \in LineIds(pump) :
       RLe(gpmAtTDH(LinesOf(pump)[l].points, t), PerOf(pump, l))
  /\ statusDetails(state, curves, [pump EXCEPT !.tdh = t]).pass => row.pass

\* C30: on a line whose heads do not rise as the flow rises, gpmAtTDH at a
\* higher target head gives no larger flow; and for a pump whose model has
\* only such lines, with quantity and required flow fixed, a higher target
\* head never turns a failing verdict into a passing one.
C30_HigherHeadNeverHelps ==
  rendered =>
    \A i \in PumpIds :
      AllLinesFalling(state.pumps[i]) =>
        \A t \in ProbeHeads :
          RGe(R(t), state.pumps[i].tdh) => NoGainAt(state.pumps[i], pumpRows[i], R(t))

\* A pump of a model with two falling lines passes at its target head and
\* fails at a higher one within the model's heads.
C30_Witness ==
  /\ rendered
  /\ Len(state.pumps) = 1
  /\ Len(LinesOf(state.pumps[1])) = 2
  /\ AllLinesFalling(state.pumps[1])
  /\ pumpRows[1].pass
  /\ \E t \in ProbeHeads :
       /\ RGt(R(t), state.pumps[1].tdh)
       /\ ~AboveMaxHead([state.pumps[1] EXCEPT !.tdh = R(t)])
       /\ ~statusDetails(state, curves, [state.pumps[1] EXCEPT !.tdh = R(t)]).pass

(***************************************************************************)
(* The text of the points.                                                 *)
(***************************************************************************)
\* An optional sign followed by digits only.
IsNumberText(f) ==
  /\ f # <<>>
  /\ IF Head(f) \in {"-", "+"}
     THEN Len(f) > 1 /\ \A i \in 2..Len(f) : IsDigit(f[i])
     ELSE \A i \in 1..Len(f) : IsDigit(f[i])

FieldsOf(line) == SplitParts(line, <<>>, <<>>)

\* One flow number and one head number, separated.
IsPairLine(line) ==
  /\ Len(FieldsOf(line)) = 2
  /\ IsNumberText(FieldsOf(line)[1])
  /\ IsNumberText(FieldsOf(line)[2])

PairOf(line) ==
  [gpm |-> parseFloat(FieldsOf(line)[1])[1], tdh |-> parseFloat(FieldsOf(line)[2])[1]]

TimesIn(seq, x) == Cardinality({i \in 1..Len(seq) : seq[i] = x})

PairLinesOf(text) == {i \in 1..Len(text) : IsPairLine(text[i])}

\* C26: parsePoints yields one point for each line made of one flow number
\* and one head number with a separator between them, and no point for any
\* other line.
C26_OnePointPerPairLine ==
  parsing.called =>
    /\ Len(parsing.points) = Cardinality(PairLinesOf(parsing.text))
    /\ \A i \in PairLinesOf(parsing.text) :
         TimesIn(parsing.points, PairOf(parsing.text[i])) =
           Cardinality({j \in PairLinesOf(parsing.text) :
                          PairOf(parsing.text[j]) = PairOf(parsing.text[i])})

(***************************************************************************)
(* The selected pump.                                                      *)
(***************************************************************************)
LastPumpIndex == IF Len(state.pumps) > 1 THEN Len(state.pumps) - 1 ELSE 0

\* C28: ui.selectedPumpIndex is an integer from 0 to max(0, number of pumps
\* - 1), so it names a pump whenever there is one.
C28_SelectedPumpIndexInRange ==
  /\ state.ui.selectedPumpIndex \in 0..LastPumpIndex
  /\ state.pumps # <<>> => state.ui.selectedPumpIndex + 1 \in 1..Len(state.pumps)

\* The first default pump was removed and a pump was added: the default
\* second pump is now the first, the last is the one Add Pump makes, and it is
\* the selected one.
C28_Witness ==
  /\ rendered
  /\ Len(state.pumps) = MaxPumps
  /\ state.pumps[1] = DefaultState.pumps[2]
  /\ state.pumps[MaxPumps].system = "Shared"
  /\ state.ui.selectedPumpIndex = MaxPumps - 1

(***************************************************************************)
(* The flow requirements.                                                  *)
(***************************************************************************)
\* volume / (hours * 60) when both are positive, and 0 otherwise.
GuardedTurnover(vol, hours) ==
  IF RGt(vol, R(0)) /\ RGt(hours, R(0)) THEN RDiv(vol, RMul(hours, R(60)))
  ELSE R(0)

\* C18: the pool turnover flow is poolVol / (hours * 60) when the pool volume
\* and the turnover hours are both positive, and 0 when either is 0 or
\* negative.
C18_PoolTurnoverFlow ==
  rendered =>
    REq(calcPoolTurnoverFlowGPM(state),
        GuardedTurnover(R(state.project.poolVol), getTurnoverHours(state)))

RowsAlike(a, b) == Len(a.waterFeatures) = Len(b.waterFeatures)

\* Between a and b only the pool volume differs, and it is not lower in b.
VolumeRaised(a, b) ==
  /\ b = [a EXCEPT !.project.poolVol = b.project.poolVol]
  /\ b.project.poolVol >= a.project.poolVol

\* Between a and b only one field of one row differs, and it is not lower in b.
RowFieldRaised(a, b) ==
  /\ RowsAlike(a, b)
  /\ \E i \in 1..Len(a.waterFeatures) :
       \/ /\ b = [a EXCEPT !.waterFeatures[i].qty = b.waterFeatures[i].qty]
          /\ b.waterFeatures[i].qty >= a.waterFeatures[i].qty
       \/ /\ b = [a EXCEPT !.waterFeatures[i].width = b.waterFeatures[i].width]
          /\ b.waterFeatures[i].width >= a.waterFeatures[i].width
       \/ /\ b = [a EXCEPT !.waterFeatures[i].gpmPerFt = b.waterFeatures[i].gpmPerFt]
          /\ b.waterFeatures[i].gpmPerFt >= a.waterFeatures[i].gpmPerFt

\* Between a and b only the turnover hours differ; they are positive and not
\* lower in b.
HoursRaised(a, b) ==
  /\ b = [a EXCEPT !.project.turnoverH = b.project.turnoverH]
  /\ RGt(getTurnoverHours(a), R(0))
  /\ RGe(getTurnoverHours(b), getTurnoverHours(a))

\* C19: a step that raises the pool volume or one field of one water feature
\* row, everything else fixed, does not lower calcPoolRequiredFlowGPM, and a
\* step that raises positive turnover hours does not raise it.
C19_RequiredFlowMonotone ==
  [][/\ (VolumeRaised(state, state') \/ RowFieldRaised(state, state'))
         => RLe(calcPoolRequiredFlowGPM(state), calcPoolRequiredFlowGPM(state'))
     /\ HoursRaised(state, state')
         => RGe(calcPoolRequiredFlowGPM(state), calcPoolRequiredFlowGPM(state'))]_vars

\* C20: the spa turnover flow is spaVol / (spaTurnH * 60) when both are
\* positive and 0 otherwise, and calcSpaRequiredFlowGPM is the greater of it
\* and jetsQty * gpmPerJet.
C20_SpaRequiredFlow ==
  rendered =>
    /\ REq(calcSpaTurnoverFlowGPM(state),
           GuardedTurnover(R(state.spa.spaVol), R(state.spa.spaTurnH)))
    /\ REq(calcSpaRequiredFlowGPM(state),
           RMax(RMul(R(state.spa.jetsQty), R(state.spa.gpmPerJet)),
                GuardedTurnover(R(state.spa.spaVol), R(state.spa.spaTurnH))))

\* The flows of a point list rise from each point to the next: ascending and
\* no flow stated twice.
StrictlyAscendingByFlow(points) ==
  \A i \in 1..(Len(points) - 1) : RLt(R(points[i].gpm), R(points[i + 1].gpm))

\* C25: in every state of the curve store, the points of every RPM line of
\* every model are sorted ascending by flow and hold no flow twice.
C25_PointsAscendingNoDuplicates ==
  \A k \in DOMAIN curves :
    \A i \in 1..Len(curves[k].rpmLines) :
      StrictlyAscendingByFlow(curves[k].rpmLines[i].points)

\* C27: once the page is drawn, the pump verdicts and the summary badges it
\* shows are those of the current configuration and the current curve store:
\* every handler that changes either has recomputed them.
C27_VerdictsCurrent ==
  rendered =>
    /\ pumpRows = PumpRows(state, curves)
    /\ badgePoolMode = PoolBadge(state, curves)
    /\ badgeSpaMode = SpaBadge(state, curves)

\* C21: no evaluation raises: whatever the stored or imported configuration
\* and curve data hold, statusDetails and the flow calculations return.
C21_NoEvaluationRaises == ~raised

\* C22: a step that reports an import error leaves the configuration, the
\* curve store and their persisted copy as they were.
C22_FailedImportLeavesAllIntact ==
  [][Len(alerts') > Len(alerts)
       => /\ state' = state
          /\ curves' = curves
          /\ saved' = saved]_vars
====
